---- MODULE Spec2Model ----
(***************************************************************************)
(* A model of the poker tournament engine of src/src/engine:               *)
(* ChipStack (chip_stack.py), Player (player.py), Hand (hand.py) and       *)
(* PokerGame.run_game (game.py).                                           *)
(*                                                                         *)
(* Seats are numbered from 0 as in the code; player_list[s + 1] is the     *)
(* player of seat s.  The agents, the deck and the blind schedule are the  *)
(* environment: an agent's answer, the hand strengths the evaluator finds  *)
(* at showdown and the blind level of a hand are chosen nondeterministically*)
(*                                                                         *)
(* Spec is the running game.  ChipSpec drives a single ChipStack, SeedSpec *)
(* the construction of games from a seed (seed_gen.py, PokerGame.__init__),*)
(* EscSpec the blind schedules (escalator.py), ProbeSpec Player.is_actable *)
(* and TableSpec the start of the betting rounds of a Hand of any size,    *)
(* each from inputs drawn in its initial state.                            *)
(***************************************************************************)
EXTENDS Integers, Sequences, FiniteSets, TLC

\* ---------------------------------------------------------------- bounds
NumPlayers == 3
InitialChips == 3
MaxHands == 2
MaxAmount == 4
MaxScore == 2
MaxStack == 8

Players == 1..NumPlayers

\* The blind levels the pluggable schedule may return:
\* <<small_blind, big_blind, ante, big_blind_ante>>.
BlindLevels == { <<1, 2, 0, 0>>, <<1, 2, 1, 0>>, <<1, 1, 0, 2>>, <<2, 4, 0, 0>> }

VARIABLES
    bank,            \* PokerGame.bank (ChipStack amount)
    players,         \* the Player objects, by player_id
    dealer_button,   \* PokerGame.dealer_button
    hand_count,      \* PokerGame.hand_count
    alive_count,     \* PokerGame.alive_count
    blinds,          \* <<small_blind, big_blind, ante, big_blind_ante>> of the game
    player_list,     \* Hand.player_list: the seats of the current hand
    current_stage,   \* Hand.current_stage
    community_cards, \* Hand.community_cards
    pot_stacks,      \* Hand.pot_stacks
    hand_log,        \* Hand.hand_log
    stage_stack,     \* the stage's temporary ChipStack (local `stack`)
    current_player,  \* betting_round: current_player
    bet_to_call,     \* betting_round: bet_to_call
    min_raise,       \* betting_round: min_raise
    retry_count,     \* betting_round: retry_count
    score,           \* the evaluator's score of each player's cards in this hand
    game_state,      \* betting_round: the snapshot passed to the agent asked last
    hand_history,    \* hand_ended: the history passed to each player's agent
    cs,              \* a ChipStack exercised on its own: amount and last call
    games,           \* PokerGame constructions on their own: what __init__ computed
    esc,             \* an escalator on its own: the last get_blind_parameters call
    probe,           \* a Player on its own: the last is_actable call
    table,           \* a Hand of any size on its own: how its betting round starts
    pc,              \* control location
    err              \* the exception that stopped the program, or "none"

vars == << bank, players, dealer_button, hand_count, alive_count, blinds,
           player_list, current_stage, community_cards, pot_stacks, hand_log,
           stage_stack, current_player, bet_to_call, min_raise, retry_count,
           score, game_state, hand_history, cs, games, esc, probe, table, pc, err >>

gameVars == << bank, players, dealer_button, hand_count, alive_count, blinds,
               player_list, current_stage, community_cards, pot_stacks, hand_log,
               stage_stack, current_player, bet_to_call, min_raise, retry_count,
               score, game_state, hand_history, pc, err >>

\* The objects exercised on their own, which a running game leaves alone.
unitVars == << cs, games, esc, probe, table >>

\* ------------------------------------------------------------- ChipStack
\* ChipStack.pop: the new amount, the returned value and whether it raised.
\* (Pop_NoEmptying: popping the whole balance is refused.)
Pop_NoEmptying(balance, amount) ==
    IF amount < 0 THEN [ok |-> FALSE, amount |-> balance, ret |-> 0]
    ELSE IF amount > 0 /\ amount >= balance THEN [ok |-> FALSE, amount |-> balance, ret |-> 0]
    ELSE [ok |-> TRUE, amount |-> balance - amount, ret |-> amount]

Pop(balance, amount) ==
    IF amount < 0 THEN [ok |-> FALSE, amount |-> balance, ret |-> 0]
    ELSE IF amount > balance THEN [ok |-> FALSE, amount |-> balance, ret |-> 0]
    ELSE [ok |-> TRUE, amount |-> balance - amount, ret |-> amount]

\* ChipStack.add
Add(balance, amount) ==
    IF amount < 0 THEN [ok |-> FALSE, amount |-> balance]
    ELSE [ok |-> TRUE, amount |-> balance + amount]

\* --------------------------------------------------------------- helpers
RECURSIVE SumOver(_, _)
SumOver(f, S) ==
    IF S = {} THEN 0
    ELSE LET x == CHOOSE y \in S : TRUE IN f[x] + SumOver(f, S \ {x})

RECURSIVE SumPots(_)
SumPots(pots) ==
    IF pots = << >> THEN 0 ELSE Head(pots).amount + SumPots(Tail(pots))

Range(s) == { s[i] : i \in 1..Len(s) }

Max(a, b) == IF a >= b THEN a ELSE b
Min(a, b) == IF a <= b THEN a ELSE b

NumSeats == Len(player_list)
PlayerAt(s) == player_list[s + 1]
Seated == Range(player_list)

NewPot == [amount |-> 0, eligible_players |-> {}]

\* Hand.get_positions: seats of dealer, small blind, big blind, under the gun
get_positions(n) ==
    IF n = 2 THEN [dealer |-> 0, sb |-> 0, bb |-> 1, utg |-> 0]
    ELSE [dealer |-> 0, sb |-> 1, bb |-> 2, utg |-> 3 % n]

\* Hand.get_competing_players / get_active_players
get_competing_players(ps) == { p \in Seated : ps[p].hand_status # "folded" }
get_active_players(ps) == { p \in Seated : ps[p].hand_status = "active" }

\* Hand.get_max_bet
get_max_bet(ps) ==
    CHOOSE m \in { ps[p].unresolved_chips : p \in Seated } :
        \A p \in Seated : ps[p].unresolved_chips <= m

\* ---------------------------------------------------------------- Player
\* Player.bet: the players and the receiving stack after the bet, and the
\* chips actually paid.
\* (bet_Leaky: the chips leave the player and never reach the stack.)
bet_Leaky(ps, stack, p, amount) ==
    LET allin  == amount >= ps[p].stack
        paid   == IF allin THEN ps[p].stack ELSE amount
        popped == Pop(ps[p].stack, paid)
    IN [ players |-> [ps EXCEPT ![p].stack = popped.amount,
                                ![p].hand_status = IF allin THEN "all-in" ELSE @,
                                ![p].unresolved_chips = @ + paid,
                                ![p].total_bet_this_hand = @ + paid,
                                ![p].can_raise = FALSE],
         stack |-> stack,
         cost |-> paid ]

\* (bet_StrictAllIn: a bet of exactly the stack does not make the player all-in.)
bet_StrictAllIn(ps, stack, p, amount) ==
    LET allin  == amount > ps[p].stack
        paid   == IF allin THEN ps[p].stack ELSE amount
        popped == Pop(ps[p].stack, paid)
        added  == Add(stack, popped.ret)
    IN [ players |-> [ps EXCEPT ![p].stack = popped.amount,
                                ![p].hand_status = IF allin THEN "all-in" ELSE @,
                                ![p].unresolved_chips = @ + paid,
                                ![p].total_bet_this_hand = @ + paid,
                                ![p].can_raise = FALSE],
         stack |-> added.amount,
         cost |-> paid ]

bet(ps, stack, p, amount) ==
    LET allin  == amount >= ps[p].stack
        paid   == IF allin THEN ps[p].stack ELSE amount
        popped == Pop(ps[p].stack, paid)
        added  == Add(stack, popped.ret)
    IN [ players |-> [ps EXCEPT ![p].stack = popped.amount,
                                ![p].hand_status = IF allin THEN "all-in" ELSE @,
                                ![p].unresolved_chips = @ + paid,
                                ![p].total_bet_this_hand = @ + paid,
                                ![p].can_raise = FALSE],
         stack |-> added.amount,
         cost |-> paid ]

\* Player.gain from a pot holding potAmount: the player after the gain and
\* what is left in the pot.
\* (gain_Unrecorded: the chips reach the stack, total_gain_this_hand is not
\* updated.)
gain_Unrecorded(ps, potAmount, p, amount) ==
    LET popped == Pop(potAmount, amount)
        added  == Add(ps[p].stack, popped.ret)
    IN [ players |-> [ps EXCEPT ![p].stack = added.amount],
         pot |-> popped.amount ]

gain(ps, potAmount, p, amount) ==
    LET popped == Pop(potAmount, amount)
        added  == Add(ps[p].stack, popped.ret)
    IN [ players |-> [ps EXCEPT ![p].stack = added.amount,
                                ![p].total_gain_this_hand = @ + amount],
         pot |-> popped.amount ]

\* Player.is_actable (its assertion is AssertActable)
\* (is_actable_NoRaiseFlag: can_raise is not consulted.)
is_actable_NoRaiseFlag(ps, p, max_bet) ==
    IF ps[p].hand_status = "folded" \/ ps[p].hand_status = "all-in" THEN FALSE
    ELSE TRUE

is_actable(ps, p, max_bet) ==
    IF ps[p].hand_status = "folded" \/ ps[p].hand_status = "all-in" THEN FALSE
    ELSE IF ps[p].unresolved_chips # max_bet THEN TRUE
    ELSE ps[p].can_raise

AssertActable(ps, p, max_bet) == ps[p].unresolved_chips <= max_bet

\* Player.stage_start for every seat (its assertion is AssertStageStart)
stage_start(ps) ==
    [ p \in Players |-> IF p \in Seated THEN [ps[p] EXCEPT !.can_raise = TRUE] ELSE ps[p] ]

AssertStageStart(ps) == \A p \in Seated : ps[p].unresolved_chips = 0

\* Player.set_raise
set_raise(ps, p) == [ps EXCEPT ![p].can_raise = TRUE]

\* Hand.log
LogItem(p, stack_before, action, cost, stage) ==
    [ player_id |-> p, stack_before |-> stack_before, action |-> action,
      cost |-> cost, stage |-> stage ]

\* ------------------------------------------- what the agents are shown
\* Two hole cards are dealt to every seat; the model names a player's cards
\* by the player's id, and 0 stands for no cards (None).
hole_cards(p) == p

\* Hand.get_player_status
get_player_status(ps, p) ==
    [ player_id |-> p, stack |-> ps[p].stack, hand_status |-> ps[p].hand_status,
      current_bet_this_stage |-> ps[p].unresolved_chips,
      total_bet_this_hand |-> ps[p].total_bet_this_hand, can_raise |-> ps[p].can_raise ]

\* The pots of a snapshot: the non-empty pots, their eligible players
\* without the folded ones.
\* (SnapshotPots_All: the empty pots are listed too.)
SnapshotPots_All(ps, pots) ==
    [ i \in 1..Len(pots) |->
        [ amount |-> pots[i].amount,
          eligible_players |-> pots[i].eligible_players \cap get_competing_players(ps) ] ]

SnapshotPots(ps, pots) ==
    LET listed == SelectSeq(pots, LAMBDA pot : pot.amount # 0)
    IN [ i \in 1..Len(listed) |->
           [ amount |-> listed[i].amount,
             eligible_players |-> listed[i].eligible_players \cap get_competing_players(ps) ] ]

\* Hand.get_game_state: the snapshot for the player about to act.
get_game_state(ps, pots, player, stack, to_call, raise_by) ==
    [ hole_cards |-> hole_cards(player),
      current_stage |-> current_stage,
      community_cards |-> community_cards,
      stage_pot |-> stack,
      pots |-> SnapshotPots(ps, pots),
      your_status |-> get_player_status(ps, player),
      bet_to_match |-> to_call,
      min_increase |-> raise_by,
      cost_to_match |-> to_call - ps[player].unresolved_chips,
      min_cost_to_increase |-> to_call - ps[player].unresolved_chips + raise_by,
      players |-> [ i \in 1..NumSeats |-> get_player_status(ps, player_list[i]) ],
      hand_log |-> hand_log ]

\* No agent is being asked.
NoState ==
    [ hole_cards |-> 0, current_stage |-> "none", community_cards |-> << >>, stage_pot |-> 0,
      pots |-> << >>, your_status |-> << >>, bet_to_match |-> 0, min_increase |-> 0,
      cost_to_match |-> 0, min_cost_to_increase |-> 0, players |-> << >>,
      hand_log |-> << >> ]

\* get_player_result (its assertion is AssertScored)
get_player_result(ps, p, reveal) ==
    [ player_id |-> p, hand_status |-> ps[p].hand_status,
      hole_cards |-> IF reveal THEN hole_cards(p) ELSE 0,
      score |-> IF reveal THEN score[p] ELSE 0,
      total_bet_this_hand |-> ps[p].total_bet_this_hand,
      winnings |-> ps[p].total_gain_this_hand,
      stack |-> ps[p].stack, rank |-> ps[p].rank ]

AssertScored(p, reveal) == reveal => score[p] > 0

\* Hand.get_player_results
get_player_results(ps, revealing_players) ==
    [ i \in 1..NumSeats |->
        get_player_result(ps, player_list[i], player_list[i] \in revealing_players) ]

\* Hand.get_hand_history
\* (get_hand_history_Open: the player's own cards are shown at any ending.)
get_hand_history_Open(ps, player, competing_players, player_results) ==
    [ told |-> TRUE, end_at |-> current_stage,
      your_result |-> get_player_result(ps, player, TRUE),
      player_results |-> [ i \in 1..Len(player_results) |->
                             get_player_result(ps, player_list[i], TRUE) ] ]

get_hand_history(ps, player, competing_players, player_results) ==
    LET reveal == current_stage = "showdown" /\ player \in competing_players
    IN [ told |-> TRUE, end_at |-> current_stage,
         your_result |-> get_player_result(ps, player, reveal),
         player_results |-> player_results ]

\* No history has been passed to the player's agent in this hand.
NoHistory ==
    [ told |-> FALSE, end_at |-> "none", your_result |-> << >>, player_results |-> << >> ]

\* ------------------------------------------------------ side-pot ledger
\* One all-in layer of add_to_pots: every payer moves min(pot_increase, its
\* unresolved chips) into the last pot and becomes eligible for it; then a
\* new side pot is opened.  st = [players, stack, pots, ok].
\* (PayLayer_SamePot: no side pot is opened after the layer.)
PayLayer_SamePot(st, payers, pot_increase) ==
    LET n      == Len(st.pots)
        amt    == [ q \in payers |-> Min(pot_increase, st.players[q].unresolved_chips) ]
        popped == Pop(st.stack, SumOver(amt, payers))
        added  == Add(st.pots[n].amount, popped.ret)
    IN [ players |-> [ q \in Players |->
                         IF q \in payers
                         THEN [st.players[q] EXCEPT !.unresolved_chips = @ - amt[q]]
                         ELSE st.players[q] ],
         stack   |-> popped.amount,
         pots    |-> [st.pots EXCEPT ![n].amount = added.amount,
                                     ![n].eligible_players = @ \cup payers],
         ok      |-> st.ok /\ popped.ok ]

PayLayer(st, payers, pot_increase) ==
    LET n      == Len(st.pots)
        amt    == [ q \in payers |-> Min(pot_increase, st.players[q].unresolved_chips) ]
        popped == Pop(st.stack, SumOver(amt, payers))
        added  == Add(st.pots[n].amount, popped.ret)
    IN [ players |-> [ q \in Players |->
                         IF q \in payers
                         THEN [st.players[q] EXCEPT !.unresolved_chips = @ - amt[q]]
                         ELSE st.players[q] ],
         stack   |-> popped.amount,
         pots    |-> Append([st.pots EXCEPT ![n].amount = added.amount,
                                            ![n].eligible_players = @ \cup payers],
                            NewPot),
         ok      |-> st.ok /\ popped.ok ]

\* The `while all_iners` loop of add_to_pots: the least committed all-in
\* player is taken first.
RECURSIVE AllInLayers(_, _, _)
AllInLayers(st, non_all_iners, all_iners) ==
    IF all_iners = {} THEN st
    ELSE LET least == CHOOSE q \in all_iners : \A r \in all_iners :
                          st.players[q].unresolved_chips <= st.players[r].unresolved_chips
             pot_increase == st.players[least].unresolved_chips
         IN IF pot_increase = 0
            THEN AllInLayers([st EXCEPT !.ok = @ /\ st.pots[Len(st.pots)].amount = 0],
                             non_all_iners, all_iners \ {least})
            ELSE AllInLayers(PayLayer(st, non_all_iners \cup all_iners, pot_increase),
                             non_all_iners, all_iners \ {least})

\* The final loop of add_to_pots: the players who are not all-in move what
\* is left of their unresolved chips into the last pot.
\* (PayRest_NotFolded: the chips of folded players are left behind.)
PayRest_NotFolded(st, non_all_iners) ==
    LET payers == { q \in non_all_iners : st.players[q].hand_status # "folded" }
    IN IF payers = {} THEN st
       ELSE LET n      == Len(st.pots)
                amt    == [ q \in payers |-> st.players[q].unresolved_chips ]
                popped == Pop(st.stack, SumOver(amt, payers))
                added  == Add(st.pots[n].amount, popped.ret)
            IN [ players |-> [ q \in Players |->
                                 IF q \in payers
                                 THEN [st.players[q] EXCEPT !.unresolved_chips = 0]
                                 ELSE st.players[q] ],
                 stack   |-> popped.amount,
                 pots    |-> [st.pots EXCEPT ![n].amount = added.amount,
                                             ![n].eligible_players = @ \cup payers],
                 ok      |-> st.ok /\ popped.ok ]

PayRest(st, non_all_iners) ==
    IF non_all_iners = {} THEN st
    ELSE LET n      == Len(st.pots)
             amt    == [ q \in non_all_iners |-> st.players[q].unresolved_chips ]
             popped == Pop(st.stack, SumOver(amt, non_all_iners))
             added  == Add(st.pots[n].amount, popped.ret)
         IN [ players |-> [ q \in Players |->
                              IF q \in non_all_iners
                              THEN [st.players[q] EXCEPT !.unresolved_chips = 0]
                              ELSE st.players[q] ],
              stack   |-> popped.amount,
              pots    |-> [st.pots EXCEPT ![n].amount = added.amount,
                                          ![n].eligible_players = @ \cup non_all_iners],
              ok      |-> st.ok /\ popped.ok ]

\* Hand.add_to_pots; ok is false when one of its assertions fails.
add_to_pots(ps, stack, pots) ==
    LET contributors  == { p \in Seated : ps[p].unresolved_chips # 0 }
        all_iners     == { p \in contributors : ps[p].hand_status = "all-in" }
        non_all_iners == contributors \ all_iners
        st0 == [ players |-> ps, stack |-> stack, pots |-> pots, ok |-> TRUE ]
        st1 == AllInLayers(st0, non_all_iners, all_iners)
        st2 == PayRest(st1, non_all_iners)
    IN [st2 EXCEPT !.ok = @ /\ st2.stack = 0]

\* Hand.add_to_pots_bba
\* (add_to_pots_bba_Unresolved: the big blind's ante is moved to the pot
\* but stays in its unresolved_chips.)
add_to_pots_bba_Unresolved(ps, stack, pots) ==
    LET contributors == { p \in Seated : ps[p].unresolved_chips # 0 }
        big_blind    == PlayerAt(get_positions(NumSeats).bb)
        n            == Len(pots)
        amount       == ps[big_blind].unresolved_chips
        popped       == Pop(stack, amount)
        added        == Add(pots[n].amount, popped.ret)
        paid         == [pots EXCEPT ![n].amount = added.amount,
                                     ![n].eligible_players = Seated]
    IN [ players |-> ps,
         stack   |-> popped.amount,
         pots    |-> IF ps[big_blind].hand_status = "all-in"
                     THEN Append(paid, NewPot) ELSE paid,
         ok      |-> contributors = {big_blind} /\ popped.ok ]

add_to_pots_bba(ps, stack, pots) ==
    LET contributors == { p \in Seated : ps[p].unresolved_chips # 0 }
        big_blind    == PlayerAt(get_positions(NumSeats).bb)
        n            == Len(pots)
        amount       == ps[big_blind].unresolved_chips
        popped       == Pop(stack, amount)
        added        == Add(pots[n].amount, popped.ret)
        paid         == [pots EXCEPT ![n].amount = added.amount,
                                     ![n].eligible_players = Seated]
    IN [ players |-> [ps EXCEPT ![big_blind].unresolved_chips = @ - amount],
         stack   |-> popped.amount,
         pots    |-> IF ps[big_blind].hand_status = "all-in"
                     THEN Append(paid, NewPot) ELSE paid,
         ok      |-> contributors = {big_blind} /\ popped.ok ]

\* ------------------------------------------------------------------ Init
\* The state PokerGame.__init__ leaves: the bank paid initial_chips_per_player
\* to every player.  The seating order is the identity (seat s holds player
\* s + 1); the shuffle only renames the players.
NewPlayer ==
    [ stack |-> InitialChips, game_status |-> "alive", hand_status |-> "active",
      unresolved_chips |-> 0, total_bet_this_hand |-> 0, total_gain_this_hand |-> 0,
      can_raise |-> TRUE, rank |-> 0 ]

NewChipStack == [ amount |-> 0, op |-> "new", arg |-> 0, ok |-> TRUE, ret |-> 0 ]

\* Before any call of the escalator and of is_actable.
NoCall ==
    [ schedule |-> "none", start_count |-> 0, hands_played |-> 0, players_alive |-> 0,
      called |-> FALSE, level_index |-> 0, ok |-> TRUE, ret |-> << 0, 0, 0, 0 >> ]

NoProbe ==
    [ hand_status |-> "active", unresolved_chips |-> 0, can_raise |-> TRUE, max_bet |-> 0,
      called |-> FALSE, ok |-> TRUE, ret |-> FALSE ]

\* Before any stage of the hand on its own.
NoTable ==
    [ seats |-> 2, big_blind |-> 1, bb_stack |-> 1, stage |-> "none", bb_status |-> "active",
      cost_bb |-> 0, current_player |-> 0, bet_to_call |-> 0, min_raise |-> 0 ]

GameInit ==
    /\ bank = InitialChips * NumPlayers - NumPlayers * InitialChips
    /\ players = [ p \in Players |-> NewPlayer ]
    /\ dealer_button = 0
    /\ hand_count = 0
    /\ alive_count = NumPlayers
    /\ blinds = << 1, 2, 0, 0 >>
    /\ player_list = << >>
    /\ current_stage = "none"
    /\ community_cards = << >>
    /\ pot_stacks = << >>
    /\ hand_log = << >>
    /\ stage_stack = 0
    /\ current_player = 0
    /\ bet_to_call = 0
    /\ min_raise = 0
    /\ retry_count = 0
    /\ score = [ p \in Players |-> 0 ]
    /\ game_state = NoState
    /\ hand_history = [ p \in Players |-> NoHistory ]
    /\ pc = "run_game"
    /\ err = "none"

Init ==
    /\ GameInit
    /\ cs = NewChipStack
    /\ games = << >>
    /\ esc = NoCall
    /\ probe = NoProbe
    /\ table = NoTable

small_blind == blinds[1]
big_blind == blinds[2]
ante == blinds[3]
big_blind_ante == blinds[4]

\* An exception leaves the program: nothing runs afterwards.
Raise(e) ==
    /\ pc' = "error"
    /\ err' = e

\* ------------------------------------------------------------- PokerGame
\* run_game, from the top of the loop to the construction of the Hand
\* (Hand.__init__ asserts 2 <= len(player_list) <= 10).
StartHand ==
    /\ pc = "run_game"
    /\ hand_count < MaxHands
    /\ LET rotated == [ i \in 1..NumPlayers |-> ((dealer_button + i - 1) % NumPlayers) + 1 ]
           hand_players == SelectSeq(rotated, LAMBDA p : players[p].game_status = "alive")
       IN /\ \E lvl \in BlindLevels : blinds' = lvl
          /\ player_list' = hand_players
          /\ IF 2 <= Len(hand_players) /\ Len(hand_players) <= 10
             THEN /\ pc' = "collect_antes"
                  /\ err' = err
             ELSE Raise("AssertionError: Hand.__init__")
    /\ current_stage' = "none"
    /\ community_cards' = << >>
    /\ pot_stacks' = << NewPot >>
    /\ hand_log' = << >>
    /\ score' = [ p \in Players |-> 0 ]
    /\ hand_history' = [ p \in Players |-> NoHistory ]
    /\ UNCHANGED << bank, players, dealer_button, hand_count, alive_count, stage_stack,
                    current_player, bet_to_call, min_raise, retry_count, unitVars,
                    game_state >>

\* run_game, after run_hand returned: count the hand, stop when nobody is
\* alive, otherwise move the dealer button to the next alive player.
RECURSIVE NextAlive(_)
NextAlive(button) ==
    LET b == (button + 1) % NumPlayers
    IN IF players[b + 1].game_status = "alive" THEN b ELSE NextAlive(b)

FinishHand ==
    /\ pc = "after_hand"
    /\ hand_count' = hand_count + 1
    /\ LET alive_players == { p \in Seated : players[p].game_status = "alive" }
       IN /\ alive_count' = Cardinality(alive_players)
          /\ IF Cardinality(alive_players) = 0
             THEN /\ pc' = "game_over"
                  /\ dealer_button' = dealer_button
             ELSE /\ pc' = "run_game"
                  /\ dealer_button' = NextAlive(dealer_button)
    /\ UNCHANGED << bank, players, blinds, player_list, current_stage, community_cards,
                    pot_stacks, hand_log, stage_stack, current_player, bet_to_call,
                    min_raise, retry_count, score, unitVars,
                    game_state, hand_history, err >>

\* ------------------------------------------------------------------ Hand
\* (NextSeat_Backwards: the round moves against the seating order.)
NextSeat_Backwards(s) == IF s = 0 THEN NumSeats - 1 ELSE s - 1

NextSeat(s) == IF s + 1 = NumSeats THEN 0 ELSE s + 1

\* The flat-ante loop of collect_antes, seat by seat: stage_start, bet, log.
\* st = [players, stack, log, ok].
RECURSIVE AnteLoop(_, _)
AnteLoop(st, s) ==
    IF s = NumSeats THEN st
    ELSE LET p       == PlayerAt(s)
             started == [st.players EXCEPT ![p].can_raise = TRUE]
             b       == bet(started, st.stack, p, ante)
             name    == IF b.players[p].hand_status = "all-in" THEN "all-in" ELSE "ante"
         IN AnteLoop([ players |-> b.players,
                       stack   |-> b.stack,
                       log     |-> Append(st.log, LogItem(p, st.players[p].stack, name, b.cost, "ante")),
                       ok      |-> st.ok /\ st.players[p].unresolved_chips = 0 ],
                     s + 1)

\* Hand.collect_antes, with the distribution into the pots it ends with.
CollectAntes ==
    /\ pc = "collect_antes"
    /\ current_stage' = "ante"
    /\ IF ante # 0
       THEN LET a == AnteLoop([players |-> players, stack |-> 0, log |-> hand_log, ok |-> TRUE], 0)
                d == add_to_pots(a.players, a.stack, pot_stacks)
            IN IF ~ a.ok
               THEN /\ Raise("AssertionError: stage_start")
                    /\ UNCHANGED << players, stage_stack, pot_stacks, hand_log >>
               ELSE IF d.ok
               THEN /\ players' = d.players
                    /\ stage_stack' = d.stack
                    /\ pot_stacks' = d.pots
                    /\ hand_log' = a.log
                    /\ pc' = "run_preflop"
                    /\ err' = err
               ELSE /\ Raise("AssertionError: add_to_pots")
                    /\ UNCHANGED << players, stage_stack, pot_stacks, hand_log >>
       ELSE IF big_blind_ante # 0
       THEN LET bb   == PlayerAt(get_positions(NumSeats).bb)
                b    == bet(players, 0, bb, big_blind_ante)
                name == IF b.players[bb].hand_status = "all-in" THEN "all-in" ELSE "big-blind-ante"
                d    == add_to_pots_bba(b.players, b.stack, pot_stacks)
            IN IF d.ok
               THEN /\ players' = d.players
                    /\ stage_stack' = d.stack
                    /\ pot_stacks' = d.pots
                    /\ hand_log' = Append(hand_log, LogItem(bb, players[bb].stack, name, b.cost, "ante"))
                    /\ pc' = "run_preflop"
                    /\ err' = err
               ELSE /\ Raise("AssertionError: add_to_pots_bba")
                    /\ UNCHANGED << players, stage_stack, pot_stacks, hand_log >>
       ELSE /\ stage_stack' = 0
            /\ pc' = "run_preflop"
            /\ UNCHANGED << players, pot_stacks, hand_log, err >>
    /\ UNCHANGED << bank, dealer_button, hand_count, alive_count, blinds, player_list,
                    community_cards, current_player, bet_to_call, min_raise, retry_count,
                    score, unitVars,
                    game_state, hand_history >>

\* The arguments of the betting round of run_preflop: it starts under the
\* gun, with the big blind to call "no matter how much the BB paid".
\* (PreflopRound_PaidBlind: bet_to_call is what the big blind posted.)
PreflopRound_PaidBlind(n, big, cost_bb) ==
    [ current_player |-> get_positions(n).utg, bet_to_call |-> cost_bb, min_raise |-> big ]

PreflopRound(n, big, cost_bb) ==
    [ current_player |-> get_positions(n).utg, bet_to_call |-> big, min_raise |-> big ]

\* The arguments of the betting round of run_flop, run_turn and run_river.
PostflopRound(n, big) ==
    [ current_player |-> get_positions(n).sb, bet_to_call |-> 0, min_raise |-> big ]

\* Hand.run_preflop up to the call of betting_round: the blinds are posted
\* and the round starts under the gun with bet_to_call = min_raise = big blind.
RunPreflop ==
    /\ pc = "run_preflop"
    /\ current_stage' = "pre-flop"
    /\ IF AssertStageStart(players)
       THEN LET pos  == get_positions(NumSeats)
                sb   == PlayerAt(pos.sb)
                bb   == PlayerAt(pos.bb)
                b1   == bet(stage_start(players), 0, sb, small_blind)
                b2   == bet(b1.players, b1.stack, bb, big_blind)
                ps   == set_raise(set_raise(b2.players, sb), bb)
                n_sb == IF ps[sb].hand_status = "all-in" THEN "all-in" ELSE "small-blind"
                n_bb == IF ps[bb].hand_status = "all-in" THEN "all-in" ELSE "big-blind"
                r    == PreflopRound(NumSeats, big_blind, b2.cost)
            IN /\ players' = ps
               /\ stage_stack' = b2.stack
               /\ hand_log' = hand_log \o << LogItem(sb, players[sb].stack, n_sb, b1.cost, "pre-flop"),
                                             LogItem(bb, players[bb].stack, n_bb, b2.cost, "pre-flop") >>
               /\ current_player' = r.current_player
               /\ bet_to_call' = r.bet_to_call
               /\ min_raise' = r.min_raise
               /\ retry_count' = 0
               /\ pc' = "betting"
               /\ err' = err
       ELSE /\ Raise("AssertionError: stage_start")
            /\ UNCHANGED << players, stage_stack, hand_log, current_player, bet_to_call,
                            min_raise, retry_count >>
    /\ UNCHANGED << bank, dealer_button, hand_count, alive_count, blinds, player_list,
                    community_cards, pot_stacks, score, unitVars,
                    game_state, hand_history >>

\* deck.draw(amount) for the board: a card is named by its place in the
\* order in which the board cards leave the deck.
draw(dealt, amount) == [ i \in 1..amount |-> dealt + i ]

\* Hand.deal_community_cards
\* (deal_community_cards_Replace: the cards drawn replace the board.)
deal_community_cards_Replace(cards, amount) == draw(Len(cards), amount)

deal_community_cards(cards, amount) == cards \o draw(Len(cards), amount)

\* Hand.run_flop / run_turn / run_river up to the call of betting_round.
RunStage(at, stage, cards) ==
    /\ pc = at
    /\ current_stage' = stage
    /\ IF AssertStageStart(players)
       THEN /\ players' = stage_start(players)
            /\ stage_stack' = 0
            /\ community_cards' = deal_community_cards(community_cards, cards)
            /\ current_player' = PostflopRound(NumSeats, big_blind).current_player
            /\ bet_to_call' = PostflopRound(NumSeats, big_blind).bet_to_call
            /\ min_raise' = PostflopRound(NumSeats, big_blind).min_raise
            /\ retry_count' = 0
            /\ pc' = "betting"
            /\ err' = err
       ELSE /\ Raise("AssertionError: stage_start")
            /\ UNCHANGED << players, stage_stack, community_cards, current_player,
                            bet_to_call, min_raise, retry_count >>
    /\ UNCHANGED << bank, dealer_button, hand_count, alive_count, blinds, player_list,
                    pot_stacks, hand_log, score, unitVars,
                    game_state, hand_history >>

RunFlop == RunStage("run_flop", "flop", 3)
RunTurn == RunStage("run_turn", "turn", 1)
RunRiver == RunStage("run_river", "river", 1)

\* ------------------------------------------------------- betting_round
\* The loop condition and the early returns at the top of the loop.
\* (RoundOver_NoLoneCheck: a lone active player that has matched bet_to_call
\* does not end the round.)
RoundOver_NoLoneCheck ==
    LET active_players == get_active_players(players)
    IN \/ ~ (retry_count < NumSeats - 1)
       \/ Cardinality(active_players) = 0

RoundOver ==
    LET active_players == get_active_players(players)
    IN \/ ~ (retry_count < NumSeats - 1)
       \/ /\ Cardinality(active_players) = 1
          /\ \A p \in active_players : players[p].unresolved_chips = bet_to_call
       \/ Cardinality(active_players) = 0

\* betting_round returns to the stage method, which calls add_to_pots next.
BettingReturn ==
    /\ pc = "betting"
    /\ RoundOver
    /\ pc' = "add_to_pots"
    /\ game_state' = NoState
    /\ UNCHANGED << bank, players, dealer_button, hand_count, alive_count, blinds,
                    player_list, current_stage, community_cards, pot_stacks, hand_log,
                    stage_stack, current_player, bet_to_call, min_raise, retry_count,
                    score, unitVars,
                    hand_history, err >>

\* The end of an iteration: a player that acted and did not fold restarts
\* the count of seats passed without an action.
\* (next_retry_count_NoReset: the count is never restarted.)
next_retry_count_NoReset(actable, hand_status, retry) == retry + 1

next_retry_count(actable, hand_status, retry) ==
    IF actable /\ hand_status # "folded" THEN 0 ELSE retry + 1

\* One iteration of the loop at a seat that is not actable.
BettingSkip ==
    /\ pc = "betting"
    /\ ~ RoundOver
    /\ LET player == PlayerAt(current_player)
       IN IF AssertActable(players, player, bet_to_call)
          THEN /\ ~ is_actable(players, player, bet_to_call)
               /\ retry_count' = next_retry_count(FALSE, players[player].hand_status,
                                                  retry_count)
               /\ current_player' = NextSeat(current_player)
               /\ UNCHANGED << pc, err >>
          ELSE /\ Raise("AssertionError: is_actable")
               /\ UNCHANGED << retry_count, current_player >>
    /\ UNCHANGED << bank, players, dealer_button, hand_count, alive_count, blinds,
                    player_list, current_stage, community_cards, pot_stacks, hand_log,
                    stage_stack, bet_to_call, min_raise, score, unitVars,
                    game_state, hand_history >>

\* `amount = max(action['amount'] - cost, min_raise)`: the agent's amount is
\* what it wants to have spent this turn, the call included.
\* (raise_amount_Increment: the agent's amount is taken as the raise itself.)
raise_amount_Increment(requested, cost, raise_by) == Max(requested, raise_by)

raise_amount(requested, cost, raise_by) == Max(requested - cost, raise_by)

\* `bet_to_call = max(self.get_max_bet(), bet_to_call)`
\* (next_bet_to_call_Kept: a raise leaves bet_to_call as it was.)
next_bet_to_call_Kept(max_bet, to_call) == to_call

next_bet_to_call(max_bet, to_call) == Max(max_bet, to_call)

\* `can_raise = player.can_raise`, read before the call is paid.
\* (may_raise_Always: an increase raises whatever can_raise says.)
may_raise_Always(ps, player) == TRUE

may_raise(ps, player) == ps[player].can_raise

\* `if actual_raise >= min_raise: min_raise = actual_raise`
\* (next_min_raise_AnyRaise: every raise sets min_raise, a short one too.)
next_min_raise_AnyRaise(actual_raise, raise_by) == actual_raise

next_min_raise(actual_raise, raise_by) ==
    IF actual_raise >= raise_by THEN actual_raise ELSE raise_by

\* The engine's treatment of an agent's answer (fold / match / increase):
\* the players, the stage stack, bet_to_call and min_raise afterwards, the
\* cost and the action name that are logged.
\* (Decide_AlwaysReopen: every raise reopens the other players' raise rights.)
Decide_AlwaysReopen(ps, stack, player, action, amount) ==
    IF action = "fold"
    THEN [ players |-> [ps EXCEPT ![player].hand_status = "folded"], stack |-> stack,
           bet_to_call |-> bet_to_call, min_raise |-> min_raise,
           cost |-> 0, action_name |-> "fold" ]
    ELSE LET call == bet(ps, stack, player, bet_to_call - ps[player].unresolved_chips)
         IN IF action = "match"
            THEN [ players |-> call.players, stack |-> call.stack,
                   bet_to_call |-> bet_to_call, min_raise |-> min_raise,
                   cost |-> call.cost,
                   action_name |-> IF call.players[player].hand_status = "all-in" THEN "all-in"
                                   ELSE IF bet_to_call = 0 THEN "check" ELSE "call" ]
            ELSE IF ~ may_raise(ps, player)
            THEN [ players |-> call.players, stack |-> call.stack,
                   bet_to_call |-> bet_to_call, min_raise |-> min_raise,
                   cost |-> call.cost,
                   action_name |-> IF call.players[player].hand_status = "all-in" THEN "all-in"
                                   ELSE "call" ]
            ELSE LET raise        == bet(call.players, call.stack, player,
                                         raise_amount(amount, call.cost, min_raise))
                     actual_raise == raise.cost
                     full         == actual_raise >= min_raise
                     reopened     == [ q \in Players |->
                                         IF q \in Seated /\ q # player
                                         THEN [raise.players[q] EXCEPT !.can_raise = TRUE]
                                         ELSE raise.players[q] ]
                 IN [ players |-> reopened, stack |-> raise.stack,
                      bet_to_call |-> next_bet_to_call(get_max_bet(raise.players), bet_to_call),
                      min_raise |-> next_min_raise(actual_raise, min_raise),
                      cost |-> call.cost + actual_raise,
                      action_name |-> IF raise.players[player].hand_status = "all-in" THEN "all-in"
                                      ELSE IF bet_to_call = 0 THEN "bet" ELSE "raise" ]

Decide(ps, stack, player, action, amount) ==
    IF action = "fold"
    THEN [ players |-> [ps EXCEPT ![player].hand_status = "folded"], stack |-> stack,
           bet_to_call |-> bet_to_call, min_raise |-> min_raise,
           cost |-> 0, action_name |-> "fold" ]
    ELSE LET call == bet(ps, stack, player, bet_to_call - ps[player].unresolved_chips)
         IN IF action = "match"
            THEN [ players |-> call.players, stack |-> call.stack,
                   bet_to_call |-> bet_to_call, min_raise |-> min_raise,
                   cost |-> call.cost,
                   action_name |-> IF call.players[player].hand_status = "all-in" THEN "all-in"
                                   ELSE IF bet_to_call = 0 THEN "check" ELSE "call" ]
            ELSE IF ~ may_raise(ps, player)
            THEN [ players |-> call.players, stack |-> call.stack,
                   bet_to_call |-> bet_to_call, min_raise |-> min_raise,
                   cost |-> call.cost,
                   action_name |-> IF call.players[player].hand_status = "all-in" THEN "all-in"
                                   ELSE "call" ]
            ELSE LET raise        == bet(call.players, call.stack, player,
                                         raise_amount(amount, call.cost, min_raise))
                     actual_raise == raise.cost
                     full         == actual_raise >= min_raise
                     reopened     == [ q \in Players |->
                                         IF full /\ q \in Seated /\ q # player
                                         THEN [raise.players[q] EXCEPT !.can_raise = TRUE]
                                         ELSE raise.players[q] ]
                 IN [ players |-> reopened, stack |-> raise.stack,
                      bet_to_call |-> next_bet_to_call(get_max_bet(raise.players), bet_to_call),
                      min_raise |-> next_min_raise(actual_raise, min_raise),
                      cost |-> call.cost + actual_raise,
                      action_name |-> IF raise.players[player].hand_status = "all-in" THEN "all-in"
                                      ELSE IF bet_to_call = 0 THEN "bet" ELSE "raise" ]

\* One iteration of the loop at an actable seat whose agent answers with a
\* defined action.
BettingAct(action, amount) ==
    /\ pc = "betting"
    /\ ~ RoundOver
    /\ LET player == PlayerAt(current_player)
       IN /\ AssertActable(players, player, bet_to_call)
          /\ is_actable(players, player, bet_to_call)
          /\ game_state' = get_game_state(players, pot_stacks, player, stage_stack,
                                          bet_to_call, min_raise)
          /\ LET d == Decide(players, stage_stack, player, action, amount)
             IN /\ players' = d.players
                /\ stage_stack' = d.stack
                /\ bet_to_call' = d.bet_to_call
                /\ min_raise' = d.min_raise
                /\ hand_log' = Append(hand_log, LogItem(player, players[player].stack,
                                                        d.action_name, d.cost, current_stage))
                /\ retry_count' = next_retry_count(TRUE, d.players[player].hand_status,
                                                   retry_count)
    /\ current_player' = NextSeat(current_player)
    /\ UNCHANGED << bank, dealer_button, hand_count, alive_count, blinds, player_list,
                    current_stage, community_cards, pot_stacks, score, unitVars,
                    hand_history, pc, err >>

\* The agent answers with an action that is none of fold, match, increase.
\* (BettingInvalid_Folds: the player is folded before the error is raised.)
BettingInvalid_Folds ==
    /\ pc = "betting"
    /\ ~ RoundOver
    /\ LET player == PlayerAt(current_player)
       IN /\ AssertActable(players, player, bet_to_call)
          /\ is_actable(players, player, bet_to_call)
          /\ game_state' = get_game_state(players, pot_stacks, player, stage_stack,
                                          bet_to_call, min_raise)
          /\ players' = [players EXCEPT ![player].hand_status = "folded"]
    /\ Raise("InvalidStringError")
    /\ UNCHANGED << bank, dealer_button, hand_count, alive_count, blinds,
                    player_list, current_stage, community_cards, pot_stacks, hand_log,
                    stage_stack, current_player, bet_to_call, min_raise, retry_count,
                    score, unitVars,
                    hand_history >>

BettingInvalid ==
    /\ pc = "betting"
    /\ ~ RoundOver
    /\ LET player == PlayerAt(current_player)
       IN /\ AssertActable(players, player, bet_to_call)
          /\ is_actable(players, player, bet_to_call)
          /\ game_state' = get_game_state(players, pot_stacks, player, stage_stack,
                                          bet_to_call, min_raise)
    /\ Raise("InvalidStringError")
    /\ UNCHANGED << bank, players, dealer_button, hand_count, alive_count, blinds,
                    player_list, current_stage, community_cards, pot_stacks, hand_log,
                    stage_stack, current_player, bet_to_call, min_raise, retry_count,
                    score, unitVars,
                    hand_history >>

\* The stage method's add_to_pots after its betting round.
AddToPots ==
    /\ pc = "add_to_pots"
    /\ LET d == add_to_pots(players, stage_stack, pot_stacks)
       IN IF d.ok
          THEN /\ players' = d.players
               /\ stage_stack' = d.stack
               /\ pot_stacks' = d.pots
               /\ pc' = "check_uncontested"
               /\ err' = err
          ELSE /\ Raise("AssertionError: add_to_pots")
               /\ UNCHANGED << players, stage_stack, pot_stacks >>
    /\ current_player' = 0
    /\ bet_to_call' = 0
    /\ min_raise' = 0
    /\ retry_count' = 0
    /\ UNCHANGED << bank, dealer_button, hand_count, alive_count, blinds, player_list,
                    current_stage, community_cards, hand_log, score, unitVars,
                    game_state, hand_history >>

\* ------------------------------------------- uncontested win and showdown
\* The `while self.pot_stacks` loop of check_uncontested_win: pots are
\* popped from the last one; an empty pot is dropped, a pot the winner is not
\* eligible for is refunded to its only eligible player.  st = [players, pots, ok];
\* when the refund assertion fails the pot that failed it stays last in pots.
RECURSIVE AwardPots(_, _)
AwardPots(st, winner) ==
    IF st.pots = << >> \/ ~ st.ok THEN st
    ELSE LET n    == Len(st.pots)
             pot  == st.pots[n]
             rest == SubSeq(st.pots, 1, n - 1)
         IN IF pot.amount = 0
            THEN AwardPots([st EXCEPT !.pots = rest], winner)
            ELSE IF winner \notin pot.eligible_players
            THEN IF Cardinality(pot.eligible_players) # 1
                 THEN [st EXCEPT !.ok = FALSE]
                 ELSE LET q == CHOOSE q \in pot.eligible_players : TRUE
                          g == gain(st.players, pot.amount, q, pot.amount)
                      IN AwardPots([players |-> g.players, pots |-> rest, ok |-> st.ok], winner)
            ELSE LET g == gain(st.players, pot.amount, winner, pot.amount)
                 IN AwardPots([players |-> g.players, pots |-> rest, ok |-> st.ok], winner)

NextStage ==
    CASE current_stage = "pre-flop" -> "run_flop"
      [] current_stage = "flop" -> "run_turn"
      [] current_stage = "turn" -> "run_river"
      [] OTHER -> "showdown"

\* Hand.check_uncontested_win as run_hand calls it after every stage.
CheckUncontestedWin ==
    /\ pc = "check_uncontested"
    /\ LET competing_players == get_competing_players(players)
       IN IF Cardinality(competing_players) = 0
          THEN /\ Raise("AssertionError: check_uncontested_win")
               /\ UNCHANGED << players, pot_stacks >>
          ELSE IF Cardinality(competing_players) = 1
          THEN LET winner == CHOOSE w \in competing_players : TRUE
                   a == AwardPots([players |-> players, pots |-> pot_stacks, ok |-> TRUE], winner)
               IN IF a.ok
                  THEN /\ players' = a.players
                       /\ pot_stacks' = a.pots
                       /\ pc' = "hand_ended"
                       /\ err' = err
                  ELSE /\ Raise("AssertionError: check_uncontested_win")
                       /\ players' = a.players
                       /\ pot_stacks' = a.pots
          ELSE /\ pc' = NextStage
               /\ UNCHANGED << players, pot_stacks, err >>
    /\ UNCHANGED << bank, dealer_button, hand_count, alive_count, blinds, player_list,
                    current_stage, community_cards, hand_log, stage_stack, current_player,
                    bet_to_call, min_raise, retry_count, score, unitVars,
                    game_state, hand_history >>

\* Hand.showdown up to its loop over the pots.  The scores the evaluator
\* will find (1 is the best) are fixed by the cards dealt.
ShowdownStart ==
    /\ pc = "showdown"
    /\ IF Len(community_cards) # 5
       THEN /\ Raise("ValueError")
            /\ UNCHANGED << current_stage, score >>
       ELSE /\ current_stage' = "showdown"
            /\ IF Cardinality(get_competing_players(players)) > 1
               THEN /\ \E sc \in [ Players -> 0..MaxScore ] :
                         /\ \A p \in Players :
                              sc[p] = 0 <=> p \notin get_competing_players(players)
                         /\ score' = sc
                    /\ pc' = "showdown_pots"
                    /\ err' = err
               ELSE /\ Raise("AssertionError: showdown")
                    /\ score' = score
    /\ UNCHANGED << bank, players, dealer_button, hand_count, alive_count, blinds,
                    player_list, community_cards, pot_stacks, hand_log, stage_stack,
                    current_player, bet_to_call, min_raise, retry_count, unitVars,
                    game_state, hand_history >>

\* winner.gain(pot, split_amount) for every winner.  st = [players, pot].
RECURSIVE GainSplit(_, _, _)
GainSplit(st, winners, split_amount) ==
    IF winners = {} THEN st
    ELSE LET w == CHOOSE x \in winners : TRUE
             g == gain(st.players, st.pot, w, split_amount)
         IN GainSplit([players |-> g.players, pot |-> g.pot], winners \ {w}, split_amount)

\* The odd-chip loop of showdown: one chip to each winner met, walking the
\* seats from index.
\* (OddChips_FromDealer: the walk starts at the dealer's seat.)
RECURSIVE OddChips_Walk(_, _, _, _)
OddChips_Walk(st, winners, index, odd_chips) ==
    IF odd_chips = 0 THEN st
    ELSE IF PlayerAt(index) \in winners
    THEN LET g == gain(st.players, st.pot, PlayerAt(index), 1)
         IN OddChips_Walk([players |-> g.players, pot |-> g.pot], winners,
                          NextSeat(index), odd_chips - 1)
    ELSE OddChips_Walk(st, winners, NextSeat(index), odd_chips)

OddChips_FromDealer(st, winners, index, odd_chips) ==
    OddChips_Walk(st, winners, 0, odd_chips)

RECURSIVE OddChips(_, _, _, _)
OddChips(st, winners, index, odd_chips) ==
    IF odd_chips = 0 THEN st
    ELSE IF PlayerAt(index) \in winners
    THEN LET g == gain(st.players, st.pot, PlayerAt(index), 1)
         IN OddChips([players |-> g.players, pot |-> g.pot], winners,
                     NextSeat(index), odd_chips - 1)
    ELSE OddChips(st, winners, NextSeat(index), odd_chips)

\* The winners of a pot: the eligible players that have not folded and have
\* the best (smallest) score.
\* (Winners_FoldedToo: the folded players of a pot are scored as well.)
Winners_FoldedToo(pot) ==
    LET eligible_players == pot.eligible_players
    IN { p \in eligible_players : \A q \in eligible_players : score[p] <= score[q] }

Winners(pot) ==
    LET eligible_players == get_competing_players(players) \cap pot.eligible_players
    IN { p \in eligible_players : \A q \in eligible_players : score[p] <= score[q] }

\* One iteration of the `while self.pot_stacks` loop of showdown.
ShowdownPot ==
    /\ pc = "showdown_pots"
    /\ pot_stacks # << >>
    /\ LET n    == Len(pot_stacks)
           pot  == pot_stacks[n]
           rest == SubSeq(pot_stacks, 1, n - 1)
           done == IF rest = << >> THEN "hand_ended" ELSE "showdown_pots"
       IN IF pot.amount = 0
          THEN /\ pot_stacks' = rest
               /\ pc' = done
               /\ UNCHANGED << players, err >>
          ELSE IF get_competing_players(players) \cap pot.eligible_players = {}
          THEN /\ Raise("IndexError")
               /\ UNCHANGED << players, pot_stacks >>
          ELSE LET winners      == Winners(pot)
                   num_winners  == Cardinality(winners)
                   split_amount == pot.amount \div num_winners
                   odd_chips    == pot.amount % num_winners
                   split == GainSplit([players |-> players, pot |-> pot.amount],
                                      winners, split_amount)
                   paid  == OddChips(split, winners, get_positions(NumSeats).sb, odd_chips)
               IN IF paid.pot = 0
                  THEN /\ players' = paid.players
                       /\ pot_stacks' = rest
                       /\ pc' = done
                       /\ err' = err
                  ELSE /\ Raise("AssertionError: showdown")
                       /\ players' = paid.players
                       /\ pot_stacks' = Append(rest, [pot EXCEPT !.amount = paid.pot])
    /\ UNCHANGED << bank, dealer_button, hand_count, alive_count, blinds, player_list,
                    current_stage, community_cards, hand_log, stage_stack, current_player,
                    bet_to_call, min_raise, retry_count, score, unitVars,
                    game_state, hand_history >>

\* -------------------------------------------------------------- hand_ended
\* Player.update_rank(self, rank): the body, and the arguments the method
\* accepts besides self.  A call with any other number of arguments raises
\* TypeError before the body runs.
update_rank(ps, p, rank) == [ps EXCEPT ![p].rank = rank]

update_rank_accepts(args) == Len(args) = 1

\* hand_ended calls player.update_rank(rank, hand_id).
UpdateRankCall == << "rank", "hand_id" >>

\* Player.check_alive
check_alive(pl) ==
    IF pl.stack = 0 THEN [pl EXCEPT !.game_status = "eliminated"]
    ELSE [pl EXCEPT !.hand_status = "active", !.total_bet_this_hand = 0,
                    !.total_gain_this_hand = 0]

\* The rank hand_ended gives a player that lost its last chip: the players
\* still holding chips are ahead, then the eliminated ones by decreasing
\* total_bet_this_hand, equal bets sharing the rank of the first of them.
EliminatedRank(ps, p) ==
    LET eliminated == { q \in Seated : ps[q].stack = 0 }
        alive      == { q \in Seated : ps[q].stack # 0 }
        ahead      == { q \in eliminated :
                          ps[q].total_bet_this_hand > ps[p].total_bet_this_hand }
    IN Cardinality(alive) + 1 + Cardinality(ahead)

\* Hand.hand_ended: the ranks, the history for every seat's agent, then
\* check_alive for every seat.  The first update_rank call is made when a
\* seat has no chips left or when a single seat holds chips.
HandEnded ==
    /\ pc = "hand_ended"
    /\ LET eliminated == { q \in Seated : players[q].stack = 0 }
           alive == { q \in Seated : players[q].stack # 0 }
           ranked == [ p \in Players |->
                         IF p \notin Seated THEN players[p]
                         ELSE IF players[p].stack = 0
                         THEN update_rank(players, p, EliminatedRank(players, p))[p]
                         ELSE IF Cardinality(alive) = 1
                         THEN update_rank(players, p, 1)[p]
                         ELSE players[p] ]
           competing_players == get_competing_players(players)
           revealing_players == IF current_stage = "showdown" THEN competing_players ELSE {}
           player_results == get_player_results(ranked, revealing_players)
       IN IF Cardinality(alive) < 1
          THEN /\ Raise("AssertionError: hand_ended")
               /\ UNCHANGED << players, hand_history >>
          ELSE IF /\ eliminated # {} \/ Cardinality(alive) = 1
                  /\ ~ update_rank_accepts(UpdateRankCall)
          THEN /\ Raise("TypeError")
               /\ UNCHANGED << players, hand_history >>
          ELSE IF \E p \in Seated : ~ AssertScored(p, p \in revealing_players)
          THEN /\ Raise("AssertionError: get_player_result")
               /\ players' = ranked
               /\ hand_history' = hand_history
          ELSE /\ players' = [ p \in Players |->
                                 IF p \in Seated THEN check_alive(ranked[p]) ELSE ranked[p] ]
               /\ hand_history' = [ p \in Players |->
                     IF p \in Seated
                     THEN get_hand_history(ranked, p, competing_players, player_results)
                     ELSE NoHistory ]
               /\ pc' = "after_hand"
               /\ err' = err
    /\ UNCHANGED << bank, dealer_button, hand_count, alive_count, blinds, player_list,
                    current_stage, community_cards, pot_stacks, hand_log, stage_stack,
                    current_player, bet_to_call, min_raise, retry_count, score, unitVars,
                    game_state >>

\* ------------------------------------------------------------------- Next
Actions == { "fold", "match", "increase" }

Next ==
    \/ StartHand
    \/ CollectAntes
    \/ RunPreflop
    \/ RunFlop
    \/ RunTurn
    \/ RunRiver
    \/ BettingReturn
    \/ BettingSkip
    \/ \E action \in Actions, amount \in 0..MaxAmount : BettingAct(action, amount)
    \/ BettingInvalid
    \/ AddToPots
    \/ CheckUncontestedWin
    \/ ShowdownStart
    \/ ShowdownPot
    \/ HandEnded
    \/ FinishHand

Spec == Init /\ [][Next]_vars

\* ------------------------------------------------ a ChipStack on its own
\* ChipStack(amount) for any amount the constructor accepts, then any
\* sequence of pop and add calls, negative amounts included.
ChipInit ==
    /\ GameInit
    /\ \E a \in 0..MaxStack : cs = [NewChipStack EXCEPT !.amount = a]
    /\ games = << >>
    /\ esc = NoCall
    /\ probe = NoProbe
    /\ table = NoTable

ChipPop(a) ==
    /\ LET r == Pop(cs.amount, a)
       IN cs' = [ amount |-> r.amount, op |-> "pop", arg |-> a, ok |-> r.ok, ret |-> r.ret ]
    /\ UNCHANGED << gameVars, games, esc, probe, table >>

ChipAdd(a) ==
    /\ cs.amount + a <= MaxStack
    /\ LET r == Add(cs.amount, a)
       IN cs' = [ amount |-> r.amount, op |-> "add", arg |-> a, ok |-> r.ok, ret |-> 0 ]
    /\ UNCHANGED << gameVars, games, esc, probe, table >>

ChipNext ==
    \/ \E a \in -2..MaxStack + 1 : ChipPop(a)
    \/ \E a \in -2..MaxStack + 1 : ChipAdd(a)

ChipSpec == ChipInit /\ [][ChipNext]_vars

\* ------------------------------------------------------------ properties
TotalChips == InitialChips * NumPlayers

StackOf == [ p \in Players |-> players[p].stack ]

ChipsInPlay == bank + SumOver(StackOf, Players) + SumPots(pot_stacks) + stage_stack

UnresolvedOf == [ p \in Players |-> players[p].unresolved_chips ]

TotalBet(ps) == SumOver([ p \in Players |-> ps[p].total_bet_this_hand ], Seated)

\* C2: in every stage the chips the players bet are in the temporary stack
\* until the distribution; when add_to_pots / add_to_pots_bba returns the
\* temporary stack holds 0, the pots grew by exactly the chips bet in the
\* stage, and the assertion on the temporary stack never fails.
C2_StageFullyDistributed ==
    /\ [](err # "AssertionError: add_to_pots" /\ err # "AssertionError: add_to_pots_bba")
    /\ [](pc \in {"betting", "add_to_pots"} => stage_stack = SumOver(UnresolvedOf, Seated))
    /\ [][ pc = "add_to_pots" /\ pc' # pc =>
             /\ pc' = "check_uncontested"
             /\ stage_stack' = 0
             /\ SumOver(UnresolvedOf, Seated)' = 0
             /\ SumPots(pot_stacks') = SumPots(pot_stacks) + stage_stack ]_vars
    /\ [][ pc = "collect_antes" /\ pc' # pc =>
             /\ pc' = "run_preflop"
             /\ stage_stack' = 0
             /\ SumOver(UnresolvedOf, Seated)' = 0
             /\ SumPots(pot_stacks') =
                    SumPots(pot_stacks) + (TotalBet(players') - TotalBet(players)) ]_vars

C2_Witness ==
    /\ pc = "check_uncontested"
    /\ stage_stack = 0
    /\ Len(pot_stacks) >= 2
    /\ pot_stacks[1].amount > 0
    /\ pot_stacks[2].amount > 0
    /\ \E p \in Seated : players[p].hand_status = "folded" /\ players[p].total_bet_this_hand > 0

\* The step in which a stage's chips are distributed into the pots, the chips
\* a player committed in that stage, the players that went all-in with chips
\* in it, and the all-in levels below an amount.
DistributionStep ==
    \/ pc = "add_to_pots" /\ pc' = "check_uncontested"
    \/ pc = "collect_antes" /\ pc' = "run_preflop"

Committed(p) ==
    IF pc = "collect_antes"
    THEN players'[p].total_bet_this_hand - players[p].total_bet_this_hand
    ELSE players[p].unresolved_chips

AllInThisStage == { p \in Seated : players'[p].hand_status = "all-in" /\ Committed(p) > 0 }

LevelsBelow(c) == { l \in { Committed(q) : q \in AllInThisStage } : l < c }

LevelBelow(c) ==
    IF LevelsBelow(c) = {} THEN 0
    ELSE CHOOSE l \in LevelsBelow(c) : \A m \in LevelsBelow(c) : m <= l

ReceivedBy(j) ==
    pot_stacks'[j].amount - (IF j <= Len(pot_stacks) THEN pot_stacks[j].amount ELSE 0)

\* C3: a player all-in with c chips committed in a stage is eligible for
\* every pot that receives that stage's layers up to c (the layer between
\* the all-in level below c and c goes to the last of them), and for no pot
\* opened above c; a player that was all-in before the stage is eligible for
\* no pot that receives chips in it.
C3_SidePotEligibility ==
    [][ DistributionStep =>
          /\ \A x \in AllInThisStage :
               LET c     == Committed(x)
                   first == Len(pot_stacks)
                   own   == first + Cardinality(LevelsBelow(c))
                   layer == [ q \in Players |-> Min(Committed(q), c) - Min(Committed(q), LevelBelow(c)) ]
               IN /\ Len(pot_stacks') > own
                  /\ \A j \in first..own : /\ x \in pot_stacks'[j].eligible_players
                                           /\ ReceivedBy(j) > 0
                  /\ ReceivedBy(own) = SumOver(layer, Seated)
                  /\ \A j \in (own + 1)..Len(pot_stacks') :
                         x \notin pot_stacks'[j].eligible_players
          /\ \A x \in Seated :
               players[x].hand_status = "all-in" /\ Committed(x) = 0 =>
                  \A j \in 1..Len(pot_stacks') :
                      ReceivedBy(j) > 0 => x \notin pot_stacks'[j].eligible_players
      ]_vars

\* Two all-in levels in one stage and chips above both.
C3_Witness ==
    /\ pc = "check_uncontested"
    /\ Len(pot_stacks) >= 3
    /\ \E x, y, z \in Seated :
         /\ players[x].hand_status = "all-in"
         /\ players[y].hand_status = "all-in"
         /\ players[x].total_bet_this_hand < players[y].total_bet_this_hand
         /\ players[y].total_bet_this_hand < players[z].total_bet_this_hand
         /\ x \in pot_stacks[1].eligible_players
         /\ x \notin pot_stacks[2].eligible_players
         /\ y \in pot_stacks[2].eligible_players
         /\ y \notin pot_stacks[3].eligible_players
         /\ pot_stacks[3].amount > 0

GainedBy(p) == players'[p].total_gain_this_hand - players[p].total_gain_this_hand

SeatOf(p) == CHOOSE s \in 0..(NumSeats - 1) : PlayerAt(s) = p

\* The distance of a player's seat from the small-blind seat, in seating order.
FromSmallBlind(p) == (SeatOf(p) - (IF NumSeats = 2 THEN 0 ELSE 1)) % NumSeats

\* C4: at showdown a non-empty pot of P chips with k tied best non-folded
\* eligible players pays every one of them P \div k, pays one chip more to
\* exactly P % k of them, those being the first ones in seating order from
\* the small-blind seat, pays nobody else, and is emptied.
C4_ShowdownSplit ==
    [][ pc = "showdown_pots" /\ pot_stacks # << >>
          /\ pot_stacks[Len(pot_stacks)].amount > 0 =>
          LET pot     == pot_stacks[Len(pot_stacks)]
              P       == pot.amount
              in_hand == { p \in pot.eligible_players : players[p].hand_status # "folded" }
              tied    == { p \in in_hand : \A q \in in_hand : score[p] <= score[q] }
              k       == Cardinality(tied)
              extra   == { w \in tied : GainedBy(w) = (P \div k) + 1 }
          IN k > 0 =>
               /\ pc' # "error"
               /\ \A w \in tied : GainedBy(w) \in { P \div k, (P \div k) + 1 }
               /\ Cardinality(extra) = P % k
               /\ \A w \in extra : \A v \in tied \ extra : FromSmallBlind(w) < FromSmallBlind(v)
               /\ \A p \in Players \ tied : GainedBy(p) = 0
               /\ \A p \in Players : players'[p].stack = players[p].stack + GainedBy(p)
               /\ SumPots(pot_stacks') = SumPots(pot_stacks) - P
               /\ Len(pot_stacks') = Len(pot_stacks) - 1
      ]_vars

\* Two tied winners of the same pots, one of which got the odd chip.
C4_Witness ==
    /\ current_stage = "showdown"
    /\ pc = "hand_ended"
    /\ \E w, v \in Seated :
         /\ score[w] = 1 /\ score[v] = 1
         /\ players[w].total_bet_this_hand = players[v].total_bet_this_hand
         /\ players[v].total_gain_this_hand > 0
         /\ players[w].total_gain_this_hand = players[v].total_gain_this_hand + 1

\* The seat that is examined in this iteration of the betting round, what a
\* call costs it, and the raise increment of the step: what the player
\* spends beyond the call.
Actor == PlayerAt(current_player)

CallPart == Min(bet_to_call - players[Actor].unresolved_chips, players[Actor].stack)

Increment ==
    (players'[Actor].total_bet_this_hand - players[Actor].total_bet_this_hand) - CallPart

\* C5: a raise whose increment is at least min raise leaves every other
\* active player with can_raise true; an all-in raise with a smaller
\* increment changes no other player's can_raise, and bet_to_call rises to
\* the new maximum commitment.
C5_RaiseReopening ==
    [][ pc = "betting" /\ pc' = "betting" /\ Increment > 0 =>
          IF Increment >= min_raise
          THEN \A q \in Seated \ {Actor} :
                   players'[q].hand_status = "active" => players'[q].can_raise
          ELSE /\ players'[Actor].hand_status = "all-in"
               /\ \A q \in Seated \ {Actor} : players'[q].can_raise = players[q].can_raise
               /\ bet_to_call' = players'[Actor].unresolved_chips
               /\ bet_to_call' > bet_to_call
               /\ \A q \in Seated : players'[q].unresolved_chips <= bet_to_call'
      ]_vars

\* After a short all-in raise: an active player that owes chips although it
\* has already acted and lost its raise right.
C5_Witness ==
    /\ pc = "betting"
    /\ hand_log # << >>
    /\ hand_log[Len(hand_log)].action = "all-in"
    /\ \E q \in Seated :
         /\ players[q].hand_status = "active"
         /\ ~ players[q].can_raise
         /\ players[q].unresolved_chips < bet_to_call

\* A full raise happened: a raiser that is not all-in and another active player.
C5_FullRaiseSeen ==
    /\ pc = "betting"
    /\ hand_log # << >>
    /\ hand_log[Len(hand_log)].action \in {"bet", "raise"}
    /\ \E q \in Seated : players[q].hand_status = "active" /\ players[q].can_raise
                          /\ q # hand_log[Len(hand_log)].player_id

\* Every active player has matched bet_to_call and has no raise right left.
Settled ==
    /\ pc = "betting"
    /\ \A p \in Seated : players[p].hand_status = "active" =>
           /\ players[p].unresolved_chips = bet_to_call
           /\ ~ players[p].can_raise

\* C6: once every active player has matched bet_to_call with can_raise
\* false, every further step of the round is a skipped seat that counts
\* towards retry_count (at most numSeats - 1 of them) or the return of the
\* round; no agent is asked and nothing is logged.
C6_SettledRoundEnds ==
    [][ Settled =>
          /\ players' = players
          /\ hand_log' = hand_log
          /\ stage_stack' = stage_stack
          /\ \/ pc' = "add_to_pots"
             \/ /\ pc' = "betting"
                /\ Settled'
                /\ retry_count' = retry_count + 1
                /\ retry_count' <= NumSeats - 1
      ]_vars

\* Two active players, both settled, right after the last of them acted.
C6_Witness ==
    /\ Settled
    /\ retry_count = 0
    /\ Cardinality(get_active_players(players)) >= 2
    /\ hand_log # << >>
    /\ hand_log[Len(hand_log)].action \in {"check", "call"}

\* C7: a hand that was started is stopped by no exception before hand_ended
\* as long as the agents answer fold, match or increase: it runs on to
\* hand_ended, where every pot is empty.
C7_HandRunsToEnd ==
    /\ err \in { "none", "InvalidStringError", "AssertionError: Hand.__init__",
                 "AssertionError: hand_ended", "AssertionError: get_player_result",
                 "TypeError" }
    /\ pc = "hand_ended" => SumPots(pot_stacks) = 0

\* C8: a hand that leaves at most one player with chips ends the game: no
\* exception stops run_game there, it starts no further hand, and no Hand is
\* constructed with fewer than 2 players.
C8_GameStopsAtOneAlive ==
    /\ pc = "run_game" => Cardinality({ p \in Players : players[p].game_status = "alive" }) >= 2
    /\ err # "AssertionError: Hand.__init__"
    /\ err = "TypeError" => Cardinality({ p \in Players : players[p].stack # 0 }) >= 2

\* C9: an answer that is none of fold, match, increase raises the error in
\* betting_round without moving a chip, changing a player or a pot, or
\* logging anything, and nothing runs after it.
C9_InvalidActionAborts ==
    [][ /\ err' = "InvalidStringError" /\ err = "none" =>
            /\ pc = "betting"
            /\ pc' = "error"
            /\ players' = players
            /\ stage_stack' = stage_stack
            /\ pot_stacks' = pot_stacks
            /\ hand_log' = hand_log
            /\ current_player' = current_player
        /\ err = "InvalidStringError" => UNCHANGED vars
      ]_vars

C9_Witness ==
    /\ err = "InvalidStringError"
    /\ pc = "error"
    /\ current_stage = "flop"
    /\ stage_stack > 0
    /\ SumPots(pot_stacks) > 0

\* C10: pop fails for a negative amount and for an amount above the balance,
\* add fails for a negative amount, and a failed call leaves the balance
\* alone; otherwise pop takes exactly amount off the balance and returns it,
\* and add puts exactly amount on it.
C10_ChipStackCalls ==
    [][ /\ cs'.op = "pop" =>
            IF cs'.arg < 0 \/ cs'.arg > cs.amount
            THEN ~ cs'.ok /\ cs'.amount = cs.amount
            ELSE cs'.ok /\ cs'.amount = cs.amount - cs'.arg /\ cs'.ret = cs'.arg
        /\ cs'.op = "add" =>
            IF cs'.arg < 0
            THEN ~ cs'.ok /\ cs'.amount = cs.amount
            ELSE cs'.ok /\ cs'.amount = cs.amount + cs'.arg
      ]_cs

\* A pop that emptied the stack.
C10_Witness ==
    /\ cs.op = "pop"
    /\ cs.ok
    /\ cs.arg > 0
    /\ cs.amount = 0

\* ------------------------------------------------------------------- C11
Winner == CHOOSE w \in get_competing_players(players) : TRUE

PotsOf(p) == [ i \in 1..Len(pot_stacks) |->
                 IF p \in pot_stacks[i].eligible_players THEN pot_stacks[i].amount ELSE 0 ]

UncontestedCheck ==
    /\ pc = "check_uncontested"
    /\ Cardinality(get_competing_players(players)) = 1

\* C11: when exactly one non-folded player remains after a stage, the check
\* goes straight to hand_ended without another card or a showdown, the
\* player's stack grows by the full amount of every pot that lists them as
\* eligible, and every pot is empty when hand_ended is called.
C11_UncontestedWinTakesPots ==
    [][ UncontestedCheck =>
          /\ pc' = "hand_ended"
          /\ community_cards' = community_cards
          /\ players'[Winner].stack =
                 players[Winner].stack + SumOver(PotsOf(Winner), 1..Len(pot_stacks))
          /\ SumPots(pot_stacks') = 0 ]_vars

\* The same statement for the checks whose refund assertion holds.
C11_UncontestedWinUnlessAborted ==
    [][ (UncontestedCheck /\ err' = "none") =>
          /\ pc' = "hand_ended"
          /\ community_cards' = community_cards
          /\ players'[Winner].stack =
                 players[Winner].stack + SumOver(PotsOf(Winner), 1..Len(pot_stacks))
          /\ SumPots(pot_stacks') = 0 ]_vars

\* --------------------------------------------- PokerGame.__init__ on its own
\* seed_gen.py works on 32-bit seeds; the model keeps the arithmetic and
\* scales the word to SeedBits bits.
SeedBits == 3
SeedSpace == 2 ^ SeedBits
MaxGames == 2

\* generate_game_seed: `if seed:` takes the seed given, capped to the word;
\* otherwise random.randint draws any word.  `given` is FALSE for None.
generate_game_seed(given, seed) ==
    IF given /\ seed # 0
    THEN { (IF seed < 0 THEN 0 - seed ELSE seed) % SeedSpace }
    ELSE 0..(SeedSpace - 1)

\* derive_seed: the first word of HMAC-SHA256(key = game_seed, data =
\* namespace).  The hash is a fixed function of key and data; the model
\* takes a fixed mixing function on SeedBits-bit words that tells the
\* namespaces 0, 1 and 1000 + i apart.
derive_seed(game_seed, namespace) ==
    (game_seed * 3 + namespace * 5 + 1) % SeedSpace

derive_deck_seed(game_seed) == derive_seed(game_seed, 0)
derive_order_seed(game_seed) == derive_seed(game_seed, 1)
derive_agent_seeds(game_seed, agent_count) ==
    [ agent_id \in 1..agent_count |-> derive_seed(game_seed, (agent_id - 1) + 1000) ]

\* sorted(self.players, key=lambda p: p.player_id)
RECURSIVE sorted(_)
sorted(S) ==
    IF S = {} THEN << >>
    ELSE LET m == CHOOSE x \in S : \A y \in S : x <= y
         IN << m >> \o sorted(S \ {m})

\* Random(order_seed).shuffle(list): for i from len - 1 down to 1, swap
\* list[i] with list[j], j = randbelow(i + 1).  The draws are a function of
\* the seed: here its digits r % (i + 1).
RECURSIVE shuffle(_, _, _)
shuffle(list, i, r) ==
    IF i < 1 THEN list
    ELSE LET j == r % (i + 1)
             swapped == [list EXCEPT ![i + 1] = list[j + 1], ![j + 1] = list[i + 1]]
         IN shuffle(swapped, i - 1, r \div (i + 1))

\* for player in self.player_list: player.agent.init_seed(agent_seeds.pop())
\* The result lists, seat by seat, the seed each agent was initialised with.
RECURSIVE init_seed(_, _)
init_seed(list, agent_seeds) ==
    IF list = << >> THEN << >>
    ELSE << agent_seeds[Len(agent_seeds)] >>
         \o init_seed(Tail(list), SubSeq(agent_seeds, 1, Len(agent_seeds) - 1))

\* PokerGame.__init__ up to the seeding of the agents.
NewGame(given, seed, pset, game_seed) ==
    LET agent_seeds == derive_agent_seeds(game_seed, Cardinality(pset))
        order_seed  == derive_order_seed(game_seed)
        list        == shuffle(sorted(pset), Cardinality(pset) - 1, order_seed)
    IN [ given |-> given, seed |-> seed, players |-> pset, ok |-> TRUE,
         game_seed |-> game_seed,
         deck_seed |-> derive_deck_seed(game_seed),
         order_seed |-> order_seed,
         agent_seeds |-> agent_seeds,
         player_list |-> list,
         init_seed |-> init_seed(list, agent_seeds) ]

\* raise ValueError("Game requires between 2 and 10 players")
NoGame(given, seed, pset) ==
    [ given |-> given, seed |-> seed, players |-> pset, ok |-> FALSE,
      game_seed |-> 0, deck_seed |-> 0, order_seed |-> 0, agent_seeds |-> << >>,
      player_list |-> << >>, init_seed |-> << >> ]

Build(given, seed, pset) ==
    /\ IF 2 <= Cardinality(pset) /\ Cardinality(pset) <= 10
       THEN \E game_seed \in generate_game_seed(given, seed) :
                games' = Append(games, NewGame(given, seed, pset, game_seed))
       ELSE games' = Append(games, NoGame(given, seed, pset))
    /\ UNCHANGED << gameVars, cs, esc, probe, table >>

\* The first construction, with any arguments.
Construct(given, seed, pset) ==
    /\ games = << >>
    /\ Build(given, seed, pset)

\* A later run of the constructor with the arguments of the first.
Reconstruct ==
    /\ games # << >>
    /\ Len(games) < MaxGames
    /\ Build(games[1].given, games[1].seed, games[1].players)

SeedNext ==
    \/ \E seed \in 0..(SeedSpace - 1), pset \in SUBSET Players : Construct(TRUE, seed, pset)
    \/ \E seed \in { -1, SeedSpace + 1 }, pset \in SUBSET Players : Construct(TRUE, seed, pset)
    \/ \E pset \in SUBSET Players : Construct(FALSE, 0, pset)
    \/ Reconstruct

SeedSpec == Init /\ [][SeedNext]_vars

\* ------------------------------------------------------------------- C12
SameOutcome(g, h) ==
    /\ g.game_seed = h.game_seed
    /\ g.deck_seed = h.deck_seed
    /\ g.order_seed = h.order_seed
    /\ g.agent_seeds = h.agent_seeds
    /\ g.player_list = h.player_list

\* C12: two constructions given the same explicit integer game_seed of
\* 0 .. 2^32 - 1 and the same player set have the same master seed, the same
\* deck, order and agent seeds and the same seating order.
C12_SameSeedSameGame ==
    \A a \in 1..Len(games), b \in 1..Len(games) :
        ( /\ games[a].ok /\ games[b].ok
          /\ games[a].given /\ games[b].given
          /\ games[a].seed \in 0..(SeedSpace - 1)
          /\ games[a].seed = games[b].seed
          /\ games[a].players = games[b].players )
        => SameOutcome(games[a], games[b])

\* The same statement for the seeds other than 0.
C12_SameNonZeroSeedSameGame ==
    \A a \in 1..Len(games), b \in 1..Len(games) :
        ( /\ games[a].ok /\ games[b].ok
          /\ games[a].given /\ games[b].given
          /\ games[a].seed \in 1..(SeedSpace - 1)
          /\ games[a].seed = games[b].seed
          /\ games[a].players = games[b].players )
        => SameOutcome(games[a], games[b])

\* ------------------------------------------------------------------- C13
\* C13: the agent of seat i of the seating order is initialised with the
\* seed derived from the master seed under namespace 1000 + i.
C13_SeatSeedNamespace ==
    \A a \in 1..Len(games) :
        games[a].ok =>
            \A i \in 0..(Len(games[a].player_list) - 1) :
                games[a].init_seed[i + 1] = derive_seed(games[a].game_seed, 1000 + i)

\* What the constructor does: seat i gets the seed of namespace
\* 1000 + (n - 1 - i), n the number of players.
C13_SeatSeedReversed ==
    \A a \in 1..Len(games) :
        games[a].ok =>
            LET n == Len(games[a].player_list)
            IN \A i \in 0..(n - 1) :
                games[a].init_seed[i + 1] = derive_seed(games[a].game_seed, 1000 + (n - 1 - i))

\* ------------------------------------------------- an escalator on its own
MaxHandCount == 165
MaxAlive == 14

\* NoLimitHoldemEscalator.__init__: hands_per_level and LEVELS
hands_per_level == 10

NLHE_LEVELS ==
    << << 10, 20, 0, 0 >>, << 15, 30, 0, 0 >>, << 20, 40, 0, 0 >>,
       << 25, 50, 0, 50 >>, << 50, 100, 0, 100 >>, << 75, 150, 0, 150 >>,
       << 100, 200, 0, 200 >>, << 150, 300, 0, 300 >>, << 200, 400, 0, 400 >>,
       << 300, 600, 0, 600 >>, << 400, 800, 0, 800 >>, << 500, 1000, 0, 1000 >>,
       << 1000, 2000, 0, 2000 >>, << 1500, 3000, 0, 3000 >>, << 3000, 6000, 0, 6000 >>,
       << 5000, 10000, 0, 10000 >> >>

\* SurvivalEscalator.__init__: LEVELS
SURVIVAL_LEVELS ==
    << << 50, 100, 0, 0 >>, << 100, 200, 0, 200 >>, << 200, 400, 0, 400 >>,
       << 500, 1000, 0, 1000 >>, << 1000, 2000, 0, 2000 >> >>

\* Python's a // b for b > 0: the floor of the quotient.
FloorDiv(a, b) == IF a >= 0 THEN a \div b ELSE 0 - ((0 - a + b - 1) \div b)

\* Python's list[i]: a negative i counts from the end, anything outside
\* -len .. len - 1 raises IndexError.
Subscript(list, i) ==
    IF 0 <= i /\ i < Len(list) THEN [ ok |-> TRUE, value |-> list[i + 1] ]
    ELSE IF 0 - Len(list) <= i /\ i < 0 THEN [ ok |-> TRUE, value |-> list[Len(list) + i + 1] ]
    ELSE [ ok |-> FALSE, value |-> << 0, 0, 0, 0 >> ]

\* The cap both schedules apply: `if level_index >= len(self.LEVELS)`.
CapLevel(level_index, levels) ==
    IF level_index >= Len(levels) THEN Len(levels) - 1 ELSE level_index

\* NoLimitHoldemEscalator.get_blind_parameters
nlhe_get_blind_parameters(hands_played, players_alive) ==
    LET hc == IF hands_played < 0 THEN 0 ELSE hands_played
        computed == FloorDiv(hc, hands_per_level)
        lvl == Subscript(NLHE_LEVELS, CapLevel(computed, NLHE_LEVELS))
    IN [ level_index |-> computed, ok |-> lvl.ok, ret |-> lvl.value ]

\* SurvivalEscalator.get_blind_parameters
survival_get_blind_parameters(start_count, hands_played, players_alive) ==
    LET eliminated == start_count - players_alive
        computed == FloorDiv(eliminated, 2)
        lvl == Subscript(SURVIVAL_LEVELS, CapLevel(computed, SURVIVAL_LEVELS))
    IN [ level_index |-> computed, ok |-> lvl.ok, ret |-> lvl.value ]

\* An escalator of either class and the arguments of the call to come.
EscInit ==
    /\ GameInit
    /\ cs = NewChipStack
    /\ games = << >>
    /\ probe = NoProbe
    /\ table = NoTable
    /\ \E h \in 0..MaxHandCount, a \in 0..MaxAlive :
          \/ esc = [NoCall EXCEPT !.schedule = "NoLimitHoldemEscalator",
                                  !.hands_played = h, !.players_alive = a]
          \/ \E n \in 2..10 :
                esc = [NoCall EXCEPT !.schedule = "SurvivalEscalator", !.start_count = n,
                                    !.hands_played = h, !.players_alive = a]

EscNLHE ==
    /\ esc.schedule = "NoLimitHoldemEscalator"
    /\ ~ esc.called
    /\ LET r == nlhe_get_blind_parameters(esc.hands_played, esc.players_alive)
       IN esc' = [esc EXCEPT !.called = TRUE, !.level_index = r.level_index,
                             !.ok = r.ok, !.ret = r.ret]
    /\ UNCHANGED << gameVars, cs, games, probe, table >>

EscSurvival ==
    /\ esc.schedule = "SurvivalEscalator"
    /\ ~ esc.called
    /\ LET r == survival_get_blind_parameters(esc.start_count, esc.hands_played,
                                              esc.players_alive)
       IN esc' = [esc EXCEPT !.called = TRUE, !.level_index = r.level_index,
                             !.ok = r.ok, !.ret = r.ret]
    /\ UNCHANGED << gameVars, cs, games, probe, table >>

EscNext ==
    \/ EscNLHE
    \/ EscSurvival

EscSpec == EscInit /\ [][EscNext]_vars

\* ------------------------------------------------------------------- C14
EscLevels == IF esc.schedule = "SurvivalEscalator" THEN SURVIVAL_LEVELS ELSE NLHE_LEVELS

\* C14: for both reference schedules and every pair of non-negative
\* arguments get_blind_parameters returns without raising a tuple with
\* sb <= bb and ante >= 0, and it returns the final level whenever the
\* computed level index is past the last level.
C14_ValidBlinds ==
    esc.called =>
        /\ esc.ok
        /\ esc.ret[1] <= esc.ret[2]
        /\ esc.ret[3] >= 0
        /\ esc.level_index >= Len(EscLevels) => esc.ret = EscLevels[Len(EscLevels)]

\* The same statement for the calls with at most start_count players alive
\* (NoLimitHoldemEscalator: all calls).
C14_ValidBlindsNoNewPlayers ==
    (esc.called /\ esc.players_alive <= esc.start_count + 10) =>
        /\ esc.ok
        /\ esc.ret[1] <= esc.ret[2]
        /\ esc.ret[3] >= 0
        /\ esc.level_index >= Len(EscLevels) => esc.ret = EscLevels[Len(EscLevels)]

\* Hand.showdown evaluates the cards of the players it finds eligible for a
\* non-empty pot; score holds the evaluator's result for every non-folded
\* player.  The two agree: at showdown every non-folded player is eligible
\* for a non-empty pot.
ShowdownScoresAll ==
    (pc = "showdown_pots" /\ hand_log # << >> /\ SumPots(pot_stacks) = SumOver([ p \in Players |-> players[p].total_bet_this_hand ], Seated)) =>
        \A p \in get_competing_players(players) :
            \E i \in 1..Len(pot_stacks) :
                pot_stacks[i].amount # 0 /\ p \in pot_stacks[i].eligible_players

\* ------------------------------------------------------------------- C15
\* A step of betting_round in which an agent is asked for its decision.
AgentAsked ==
    /\ pc = "betting"
    /\ hand_log' # hand_log \/ (err = "none" /\ err' = "InvalidStringError")

NonEmptyPots == { i \in 1..Len(pot_stacks) : pot_stacks[i].amount # 0 }

NthNonEmptyPot(k) ==
    CHOOSE i \in NonEmptyPots : Cardinality({ j \in NonEmptyPots : j < i }) = k - 1

\* C15: in every snapshot passed to an agent cost_to_match is bet_to_match
\* minus the acting player's chips committed this stage and is not negative,
\* min_cost_to_increase is cost_to_match + min_increase, and the pots listed
\* are exactly the non-empty pots, in order, each with its eligible players
\* that have not folded.
C15_SnapshotBettingMath ==
    [][ AgentAsked =>
          LET gs == game_state'
          IN /\ gs.bet_to_match = bet_to_call
             /\ gs.min_increase = min_raise
             /\ gs.cost_to_match = gs.bet_to_match - players[Actor].unresolved_chips
             /\ gs.cost_to_match >= 0
             /\ gs.min_cost_to_increase = gs.cost_to_match + gs.min_increase
             /\ Len(gs.pots) = Cardinality(NonEmptyPots)
             /\ \A k \in 1..Len(gs.pots) :
                  /\ gs.pots[k].amount = pot_stacks[NthNonEmptyPot(k)].amount
                  /\ gs.pots[k].eligible_players =
                       { p \in pot_stacks[NthNonEmptyPot(k)].eligible_players :
                           players[p].hand_status # "folded" } ]_vars

\* An agent was shown a snapshot with a cost to match, while an empty pot is
\* left out of the list and a folded player out of a pot's eligible players.
C15_Witness ==
    /\ pc = "betting"
    /\ game_state # NoState
    /\ game_state.cost_to_match > 0
    /\ Len(game_state.pots) >= 1
    /\ Len(game_state.pots) < Len(pot_stacks)
    /\ \E k \in 1..Len(game_state.pots) :
         game_state.pots[k].eligible_players # pot_stacks[NthNonEmptyPot(k)].eligible_players

\* ------------------------------------------------------------------- C16
\* The hole cards a history shows: those of the seats it reveals.
ShownIn(h) ==
    { h.player_results[i].hole_cards : i \in 1..Len(h.player_results) } \ { 0 }

HistoryKeepsCards(h) ==
    /\ \A i \in 1..Len(h.player_results) :
         LET r == h.player_results[i]
         IN /\ r.hole_cards \in { 0, hole_cards(r.player_id) }
            /\ r.hole_cards # 0 => (h.end_at = "showdown" /\ r.hand_status # "folded")
    /\ h.end_at # "showdown" => ShownIn(h) = {}

\* C16: a decision snapshot holds the hole cards of the acting player only;
\* an end-of-hand history shows a player's hole cards in player_results only
\* when the hand ended at showdown and that player had not folded, and shows
\* none when the hand ended uncontested.
C16_HoleCardsHidden ==
    [][ /\ AgentAsked => game_state'.hole_cards = hole_cards(Actor)
        /\ \A p \in Players :
             hand_history'[p].told => HistoryKeepsCards(hand_history'[p]) ]_vars

\* A showdown history that shows one player's cards and hides those of a
\* player who folded.
C16_Witness ==
    \E p \in Players :
        /\ hand_history[p].told
        /\ hand_history[p].end_at = "showdown"
        /\ ShownIn(hand_history[p]) # {}
        /\ \E i \in 1..Len(hand_history[p].player_results) :
             /\ hand_history[p].player_results[i].hand_status = "folded"
             /\ hand_history[p].player_results[i].hole_cards = 0

\* A history of a hand that ended uncontested was passed to the agents.
C16_UncontestedSeen ==
    \E p \in Players : hand_history[p].told /\ hand_history[p].end_at # "showdown"

\* ------------------------------------------------------------------- C17
\* C17: when a player with raise rights answers increase with amount A, the
\* cost to match being m and the min raise r, and its stack is larger than
\* max(A, m + r), it spends exactly max(A, m + r) in that turn: the call m
\* and a raise increment of max(A - m, r).
C17_IncreaseIsTotalSpend ==
    [][ \A A \in 0..MaxAmount :
          LET m == bet_to_call - players[Actor].unresolved_chips
              r == min_raise
          IN ( /\ BettingAct("increase", A)
               /\ players[Actor].can_raise
               /\ players[Actor].stack > Max(A, m + r) )
             => /\ players[Actor].stack - players'[Actor].stack = Max(A, m + r)
                /\ players'[Actor].unresolved_chips = bet_to_call + Max(A - m, r)
                /\ hand_log'[Len(hand_log')].cost = Max(A, m + r)
                /\ stage_stack' = stage_stack + Max(A, m + r) ]_vars

\* A player facing a cost to match asked for more than the call plus the
\* min raise, had the chips, and spent exactly the amount it asked for.
C17_Witness ==
    /\ pc = "betting"
    /\ game_state # NoState
    /\ hand_log # << >>
    /\ LET last == hand_log[Len(hand_log)]
       IN /\ last.player_id = game_state.your_status.player_id
          /\ last.action = "raise"
          /\ game_state.your_status.can_raise
          /\ game_state.cost_to_match > 0
          /\ last.cost > game_state.min_cost_to_increase
          /\ last.cost < last.stack_before

\* ------------------------------------------------------------------- C18
Busted == { p \in Seated : players[p].stack = 0 }
Holding == { p \in Seated : players[p].stack # 0 }

\* C18: at the end of a hand exactly the players whose stack is 0 are marked
\* eliminated; of two players busting in the hand the one that committed
\* more chips gets the strictly smaller rank, equal commitments share a
\* rank, every such rank is larger than the number of players holding chips,
\* and a single player holding chips gets rank 1.
C18_RanksAtHandEnd ==
    [][ (pc = "hand_ended" /\ Holding # {}) =>
          /\ \A p \in Seated : players'[p].game_status = "eliminated" <=> p \in Busted
          /\ \A p \in Busted : players'[p].rank > Cardinality(Holding)
          /\ \A p \in Busted, q \in Busted :
               /\ players[p].total_bet_this_hand > players[q].total_bet_this_hand
                    => players'[p].rank < players'[q].rank
               /\ players[p].total_bet_this_hand = players[q].total_bet_this_hand
                    => players'[p].rank = players'[q].rank
          /\ Cardinality(Holding) = 1 => \A p \in Holding : players'[p].rank = 1 ]_vars

HandStatuses == { "active", "folded", "all-in" }

\* A player in any hand status with any commitment this stage, and a
\* bet_to_call that is at least that commitment, as betting_round keeps it
\* (is_actable asserts it).
ProbeInit ==
    /\ GameInit
    /\ cs = NewChipStack
    /\ games = << >>
    /\ esc = NoCall
    /\ table = NoTable
    /\ \E hs \in HandStatuses, u \in 0..MaxStack, cr \in BOOLEAN, mb \in 0..MaxStack :
          /\ u <= mb
          /\ probe = [NoProbe EXCEPT !.hand_status = hs, !.unresolved_chips = u,
                                     !.can_raise = cr, !.max_bet = mb]

\* player.is_actable(max_bet)
ProbeCall ==
    /\ ~ probe.called
    /\ LET ps == [players EXCEPT ![1].hand_status = probe.hand_status,
                                 ![1].unresolved_chips = probe.unresolved_chips,
                                 ![1].can_raise = probe.can_raise]
       IN probe' = [probe EXCEPT !.called = TRUE,
                                 !.ok = AssertActable(ps, 1, probe.max_bet),
                                 !.ret = is_actable(ps, 1, probe.max_bet)]
    /\ UNCHANGED << gameVars, cs, games, esc, table >>

ProbeNext == ProbeCall

ProbeSpec == ProbeInit /\ [][ProbeNext]_vars

ActiveNow == get_active_players(players)

\* Nobody is left to act: no player is active, or the only active player
\* has matched bet_to_call.
NobodyToAct ==
    \/ ActiveNow = {}
    \/ Cardinality(ActiveNow) = 1 /\ \A p \in ActiveNow : players[p].unresolved_chips = bet_to_call

C21_LoneReturn ==
    /\ pc = "add_to_pots"
    /\ Cardinality(ActiveNow) = 1
    /\ \A p \in ActiveNow : players[p].can_raise
    /\ retry_count = 0

\* --------------------------------------------- a Hand of any size on its own
\* Hand.__init__ accepts 2 to 10 seats.
MinSeats == 2
MaxSeats == 10
MaxBlind == 3

\* A hand of any accepted size, any big blind, and a big-blind player
\* holding any stack from one chip on.
TableInit ==
    /\ GameInit
    /\ cs = NewChipStack
    /\ games = << >>
    /\ esc = NoCall
    /\ probe = NoProbe
    /\ \E n \in MinSeats..MaxSeats, big \in 1..MaxBlind, st \in 1..MaxBlind + 1 :
          table = [NoTable EXCEPT !.seats = n, !.big_blind = big, !.bb_stack = st]

\* run_preflop up to the call of betting_round: the big blind is posted by
\* the player of seat bb.
TablePreflop ==
    /\ table.stage = "none"
    /\ LET b == bet([players EXCEPT ![1].stack = table.bb_stack], 0, 1, table.big_blind)
           r == PreflopRound(table.seats, table.big_blind, b.cost)
       IN table' = [table EXCEPT !.stage = "pre-flop",
                                 !.bb_status = b.players[1].hand_status,
                                 !.cost_bb = b.cost,
                                 !.current_player = r.current_player,
                                 !.bet_to_call = r.bet_to_call,
                                 !.min_raise = r.min_raise]
    /\ UNCHANGED << gameVars, cs, games, esc, probe >>

\* run_flop, run_turn, run_river up to the call of betting_round.
TablePostflop(stage) ==
    /\ table.stage = "none"
    /\ LET r == PostflopRound(table.seats, table.big_blind)
       IN table' = [table EXCEPT !.stage = stage,
                                 !.current_player = r.current_player,
                                 !.bet_to_call = r.bet_to_call,
                                 !.min_raise = r.min_raise]
    /\ UNCHANGED << gameVars, cs, games, esc, probe >>

TableNext ==
    \/ TablePreflop
    \/ \E stage \in { "flop", "turn", "river" } : TablePostflop(stage)

TableSpec == TableInit /\ [][TableNext]_vars

\* The seat after seat s at a table of n seats.
SeatAfter(s, n) == (s + 1) % n

\* ------------------------------------------------------------------- C22
\* C22: for every table size from 2 to 10, the first seat examined in flop,
\* turn and river betting is the seat immediately after the dealer seat.
C22_PostflopStartsAfterDealer ==
    table.stage \in { "flop", "turn", "river" } =>
        table.current_player = SeatAfter(get_positions(table.seats).dealer, table.seats)

\* The same statement for the tables of three seats and more.
C22_PostflopStartsAfterDealerFromThree ==
    (table.stage \in { "flop", "turn", "river" } /\ table.seats >= 3) =>
        table.current_player = SeatAfter(get_positions(table.seats).dealer, table.seats)

\* ------------------------------------------------------------------- C23
\* C23: for every table size from 2 to 10, pre-flop betting starts at the
\* seat immediately after the big-blind seat, with bet_to_call and min raise
\* equal to the big blind, even when the big-blind player could only post a
\* smaller amount and is all-in.
C23_PreflopStart ==
    table.stage = "pre-flop" =>
        /\ table.current_player = SeatAfter(get_positions(table.seats).bb, table.seats)
        /\ table.bet_to_call = table.big_blind
        /\ table.min_raise = table.big_blind

\* Heads-up, the big blind all-in for less than the big blind.
C23_Witness ==
    /\ table.stage = "pre-flop"
    /\ table.seats = 2
    /\ table.bb_status = "all-in"
    /\ table.cost_bb < table.big_blind
    /\ table.bet_to_call = table.big_blind

\* ------------------------------------------------------------------- C24
\* A match answered by a player that has already matched bet_to_call and is
\* not all-in afterwards.
FreeMatch ==
    /\ \E a \in 0..MaxAmount : BettingAct("match", a)
    /\ players[Actor].unresolved_chips = bet_to_call
    /\ players'[Actor].hand_status # "all-in"

LastLogged == hand_log'[Len(hand_log')]

\* C24: a match by a player who has already matched bet_to_call (cost 0,
\* not all-in) is logged as 'check', in every stage, the big blind's option
\* pre-flop included.
C24_FreeMatchIsCheck ==
    [][ FreeMatch => LastLogged.cost = 0 /\ LastLogged.action = "check" ]_vars

\* What is logged: 'check' when bet_to_call is 0, 'call' with cost 0 when a
\* blind or a bet has been matched already.
C24_FreeMatchIsCheckOnlyUnbet ==
    [][ FreeMatch => /\ LastLogged.cost = 0
                     /\ LastLogged.action = IF bet_to_call = 0 THEN "check" ELSE "call" ]_vars

\* The big blind used its option pre-flop and a call of cost 0 was logged.
C24_OptionLoggedAsCall ==
    /\ pc = "betting"
    /\ current_stage = "pre-flop"
    /\ bet_to_call = big_blind
    /\ hand_log # << >>
    /\ hand_log[Len(hand_log)].action = "call"
    /\ hand_log[Len(hand_log)].cost = 0
    /\ hand_log[Len(hand_log)].player_id = PlayerAt(get_positions(NumSeats).bb)

\* ------------------------------------------------------------------- C25
\* The seats strictly between seat a and seat b, going round the table.
SeatsBetween(a, b) ==
    { (a + k) % NumSeats : k \in 1..(((b - a) % NumSeats) - 1) }

\* The player asked before in this round (the snapshot is dropped when
\* the round returns).
AskedBefore == game_state # NoState

\* C25: within a betting round the agents are asked one at a time in
\* cyclic seating order, each next actor being the nearest actable seat
\* after the previous actor; each action appends exactly one entry to the
\* hand log, and no entry of the log of a hand is changed or removed.
C25_SequentialAppendOnly ==
    [][ /\ (AgentAsked /\ AskedBefore) =>
             LET prev == SeatOf(game_state.your_status.player_id)
             IN /\ current_player # prev
                /\ is_actable(players, Actor, bet_to_call)
                /\ \A s \in SeatsBetween(prev, current_player) :
                      ~ is_actable(players, PlayerAt(s), bet_to_call)
                /\ game_state'.your_status.player_id = Actor
        /\ (AgentAsked /\ pc' = "betting") =>
             /\ Len(hand_log') = Len(hand_log) + 1
             /\ hand_log'[Len(hand_log')].player_id = Actor
        /\ pc # "run_game" =>
             /\ Len(hand_log') >= Len(hand_log)
             /\ SubSeq(hand_log', 1, Len(hand_log)) = hand_log
      ]_vars

\* Two agents acted one after the other on the flop with a seat skipped
\* between them.
C25_Witness ==
    /\ pc = "betting"
    /\ Len(hand_log) >= 2
    /\ LET last == hand_log[Len(hand_log)]
           prev == hand_log[Len(hand_log) - 1]
       IN /\ last.stage = "flop"
          /\ prev.stage = "flop"
          /\ (SeatOf(last.player_id) - SeatOf(prev.player_id)) % NumSeats >= 2

\* ------------------------------------------------------------------- C26
\* The places where stage_start is called next on every seat.
StageStarts == { "collect_antes", "run_preflop", "run_flop", "run_turn", "run_river" }

\* C26: whenever stage_start is called on a player (flat-ante collection,
\* pre-flop, flop, turn, river) that player's unresolved_chips is 0: the
\* assertion of stage_start never fails, in hands with all-in layers and
\* with a big-blind ante too.
C26_StageStartAssertion ==
    /\ err # "AssertionError: stage_start"
    /\ pc \in StageStarts => AssertStageStart(players)

\* The flop has started, stage_start passed on every seat, in a hand with a
\* big-blind ante in which an all-in opened a side pot that holds chips.
C26_Witness ==
    /\ pc = "betting"
    /\ current_stage = "flop"
    /\ big_blind_ante # 0
    /\ \E p \in Seated : players[p].hand_status = "all-in"
    /\ Len(pot_stacks) >= 2
    /\ pot_stacks[2].amount > 0
    /\ AssertStageStart(players)

\* The flat antes of a second hand are about to be collected.
C26_SecondHandAntes ==
    /\ pc = "collect_antes"
    /\ hand_count = 1
    /\ ante # 0

\* ------------------------------------------------------------------- C27
\* C27: within a betting round bet_to_call never decreases and min raise
\* never decreases: min raise starts at the big blind in each stage and is
\* replaced only by the increment of a full raise, which is at least the
\* previous min raise.
C27_MonotoneBetting ==
    [][ /\ (pc = "betting" /\ pc' = "betting") =>
             /\ bet_to_call' >= bet_to_call
             /\ min_raise' >= min_raise
             /\ min_raise' # min_raise =>
                  /\ Increment >= min_raise
                  /\ min_raise' = Increment
        /\ (pc # "betting" /\ pc' = "betting") => min_raise' = big_blind
      ]_vars

\* A full raise larger than the min raise has replaced it, after a raise
\* that had already lifted bet_to_call.
C27_Witness ==
    /\ pc = "betting"
    /\ min_raise > big_blind
    /\ bet_to_call > big_blind
    /\ hand_log # << >>
    /\ hand_log[Len(hand_log)].action \in { "bet", "raise", "all-in" }

\* A short all-in raise has lifted bet_to_call and left min raise alone.
C27_ShortRaiseSeen ==
    /\ pc = "betting"
    /\ min_raise = big_blind
    /\ hand_log # << >>
    /\ hand_log[Len(hand_log)].action = "all-in"
    /\ current_stage = "flop"
    /\ bet_to_call > 0
    /\ bet_to_call < min_raise

\* ------------------------------------------------------------------- C28
StageRank(stage) ==
    CASE stage = "none" -> 0
      [] stage = "ante" -> 1
      [] stage = "pre-flop" -> 2
      [] stage = "flop" -> 3
      [] stage = "turn" -> 4
      [] stage = "river" -> 5
      [] stage = "showdown" -> 6

BoardSize(stage) ==
    CASE stage \in { "none", "ante", "pre-flop" } -> 0
      [] stage = "flop" -> 3
      [] stage = "turn" -> 4
      [] stage \in { "river", "showdown" } -> 5

\* C28: during one hand current_stage only advances in the order ante,
\* pre-flop, flop, turn, river, showdown; community_cards has length 0
\* through pre-flop, 3 during flop, 4 during turn and 5 during river and
\* showdown; cards already dealt are never changed; showdown is entered
\* only with 5 community cards and more than one non-folded player.
C28_StagesAndBoard ==
    [][ /\ pc # "run_game" =>
             /\ current_stage' # current_stage =>
                  StageRank(current_stage') = StageRank(current_stage) + 1
             /\ Len(community_cards') >= Len(community_cards)
             /\ SubSeq(community_cards', 1, Len(community_cards)) = community_cards
        /\ Len(community_cards') = BoardSize(current_stage')
        /\ (current_stage # "showdown" /\ current_stage' = "showdown") =>
             /\ Len(community_cards') = 5
             /\ Cardinality(get_competing_players(players')) > 1
             /\ err' = "none"
      ]_vars

\* The showdown of a hand that went through every stage.
C28_Witness ==
    /\ pc = "showdown_pots"
    /\ current_stage = "showdown"
    /\ community_cards = << 1, 2, 3, 4, 5 >>

\* ------------------------------------------------------------------- C29
\* An increase answered by a player whose can_raise is false.
IncreaseWithoutRight ==
    /\ \E a \in 0..MaxAmount : BettingAct("increase", a)
    /\ ~ players[Actor].can_raise

\* C29: an increase answered by a player whose can_raise is false is
\* executed as a call only: the player pays at most bet_to_call minus its
\* committed chips, and bet_to_call, min raise and every other player's
\* can_raise are left unchanged.
C29_IncreaseWithoutRightIsCall ==
    [][ IncreaseWithoutRight =>
          LET paid == players[Actor].stack - players'[Actor].stack
          IN /\ paid = CallPart
             /\ paid <= bet_to_call - players[Actor].unresolved_chips
             /\ players'[Actor].unresolved_chips = players[Actor].unresolved_chips + paid
             /\ stage_stack' = stage_stack + paid
             /\ bet_to_call' = bet_to_call
             /\ min_raise' = min_raise
             /\ \A q \in Players \ {Actor} : players'[q] = players[q]
             /\ LastLogged.cost = paid
             /\ LastLogged.action \in { "call", "all-in" }
      ]_vars

\* A player without raise right that owed chips after a short all-in raise
\* has just called, with chips left.
C29_Witness ==
    /\ pc = "betting"
    /\ game_state # NoState
    /\ ~ game_state.your_status.can_raise
    /\ game_state.cost_to_match > 0
    /\ hand_log # << >>
    /\ hand_log[Len(hand_log)].action = "call"
    /\ hand_log[Len(hand_log)].player_id = game_state.your_status.player_id
    /\ players[game_state.your_status.player_id].stack > 0

\* ------------------------------------------------------------------- C30
AliveSeat(b) == players[b + 1].game_status = "alive"

\* The nearest seat after the button, in the fixed seating order and
\* wrapping, whose player is alive.
NearestAliveAfter(button) ==
    LET k == CHOOSE k \in 1..NumPlayers :
                 /\ AliveSeat((button + k) % NumPlayers)
                 /\ \A j \in 1..(k - 1) : ~ AliveSeat((button + j) % NumPlayers)
    IN (button + k) % NumPlayers

\* The alive players in seating order, from the button on.
AliveFromButton ==
    SelectSeq([ i \in 1..NumPlayers |-> ((dealer_button + i - 1) % NumPlayers) + 1 ],
              LAMBDA p : players[p].game_status = "alive")

\* C30: after every hand that leaves at least one player alive the dealer
\* button moves to the nearest seat after the previous button (fixed
\* seating order, wrapping) whose player is alive; so at the start of
\* every hand seat 0 of the hand is the alive player at the dealer button
\* and the other alive players follow in seating order.
C30_ButtonToNextAlive ==
    [][ /\ (pc = "hand_ended" /\ Holding # {}) => pc' = "after_hand"
        /\ (pc = "after_hand" /\ \E b \in 0..(NumPlayers - 1) : AliveSeat(b)) =>
             /\ dealer_button' = NearestAliveAfter(dealer_button)
             /\ pc' = "run_game"
        /\ (pc = "run_game" /\ pc' = "collect_antes") =>
             /\ player_list' = AliveFromButton
             /\ player_list'[1] = dealer_button + 1
             /\ AliveSeat(dealer_button)
      ]_vars

\* The same statement for the hands whose hand_ended returns.
C30_ButtonToNextAliveIfHandReturns ==
    [][ /\ (pc = "after_hand" /\ \E b \in 0..(NumPlayers - 1) : AliveSeat(b)) =>
             /\ dealer_button' = NearestAliveAfter(dealer_button)
             /\ pc' = "run_game"
        /\ (pc = "run_game" /\ pc' = "collect_antes") =>
             /\ player_list' = AliveFromButton
             /\ player_list'[1] = dealer_button + 1
             /\ AliveSeat(dealer_button)
      ]_vars

\* A second hand has started with the button moved on.
C30_SecondHand ==
    /\ pc = "collect_antes"
    /\ hand_count = 1
    /\ dealer_button = 1
    /\ player_list = << 2, 3, 1 >>

\* ------------------------------------------------------------------- C31
\* C31: when a betting round returns, every player whose hand_status is
\* active has unresolved_chips equal to bet_to_call: no active player that
\* still owes chips is left unasked.
C31_ReturnLeavesNoDebt ==
    pc = "add_to_pots" =>
        \A p \in get_active_players(players) : players[p].unresolved_chips = bet_to_call

\* A round returned after a raise, a fold and a call, with two active
\* players that have matched a raised bet_to_call.
C31_Witness ==
    /\ pc = "add_to_pots"
    /\ bet_to_call > big_blind
    /\ Cardinality(get_active_players(players)) >= 2
    /\ \E p \in Seated : players[p].hand_status = "folded"
    /\ \A p \in get_active_players(players) : players[p].unresolved_chips = bet_to_call

\* ------------------------------------------------------------------- C32
\* C32: whenever is_actable is evaluated in a betting round the examined
\* player's unresolved_chips is at most bet_to_call (the assertion of
\* is_actable never fails), for blinds with small_blind <= big_blind, also
\* after short all-in blinds and short all-in raises.
C32_IsActableAssertion ==
    /\ err # "AssertionError: is_actable"
    /\ (pc = "betting" /\ ~ RoundOver /\ small_blind <= big_blind) =>
           AssertActable(players, Actor, bet_to_call)

\* Pre-flop, after a big blind that is all-in for less than the big blind
\* and an all-in raise of less than min raise, the next seat is examined.
C32_Witness ==
    /\ pc = "betting"
    /\ ~ RoundOver
    /\ current_stage = "pre-flop"
    /\ LET bb == PlayerAt(get_positions(NumSeats).bb)
       IN /\ players[bb].hand_status = "all-in"
          /\ players[bb].unresolved_chips < big_blind
    /\ hand_log[Len(hand_log)].action = "all-in"
    /\ bet_to_call > big_blind
    /\ bet_to_call < big_blind + min_raise
    /\ players[Actor].unresolved_chips < bet_to_call

\* ------------------------------------------------------------------- C33
\* The control locations of a hand before any pot is paid out, and those of
\* a hand up to hand_ended.
BeforePayout ==
    { "collect_antes", "run_preflop", "betting", "add_to_pots", "check_uncontested",
      "run_flop", "run_turn", "run_river", "showdown" }

InHand == BeforePayout \cup { "showdown_pots" }

\* C33: from the start of a hand until pots are paid out a seated player's
\* stack is 0 if and only if its hand_status is all-in: an active or folded
\* player has a positive stack, and a player that is all-in never returns
\* to active and never folds within that hand.
C33_AllInIffEmptyStack ==
    [][ /\ pc' \in BeforePayout =>
             \A p \in Range(player_list') :
                 players'[p].stack = 0 <=> players'[p].hand_status = "all-in"
        /\ pc \in InHand =>
             \A p \in Seated :
                 players[p].hand_status = "all-in" => players'[p].hand_status = "all-in"
      ]_vars

\* On the flop: a player all-in since an earlier stage, a folded player and
\* an active player, the last two holding chips.
C33_Witness ==
    /\ pc = "betting"
    /\ current_stage = "flop"
    /\ \E p, q, r \in Seated :
         /\ players[p].hand_status = "all-in" /\ players[p].stack = 0
         /\ players[q].hand_status = "folded" /\ players[q].stack > 0
         /\ players[r].hand_status = "active" /\ players[r].stack > 0

\* ------------------------------------------------------------------- C34
\* C34: when a hand ends uncontested every non-empty pot lists the sole
\* remaining player as eligible or lists exactly one eligible player, so
\* the assertion of the refund branch of check_uncontested_win never fails.
C34_RefundAssertion ==
    /\ err # "AssertionError: check_uncontested_win"
    /\ UncontestedCheck =>
         \A i \in 1..Len(pot_stacks) :
             pot_stacks[i].amount # 0 =>
                 \/ Winner \in pot_stacks[i].eligible_players
                 \/ Cardinality(pot_stacks[i].eligible_players) = 1

\* ------------------------------------------------------------------- C35
\* C35: at showdown every non-empty pot has at least one eligible player
\* that has not folded, so the set of winners is never empty and the pot is
\* paid out in full: the assertion `pot['stack'].amount == 0` of showdown
\* never fails.
C35_ShowdownPotsHaveWinners ==
    /\ err \notin { "IndexError", "AssertionError: showdown" }
    /\ pc = "showdown_pots" =>
         \A i \in 1..Len(pot_stacks) :
             pot_stacks[i].amount # 0 =>
                 pot_stacks[i].eligible_players \cap get_competing_players(players) # {}

\* ------------------------------------------------------------------- C36
FoldedNow == { p \in Seated : players[p].hand_status = "folded" }

\* C36 as stated: once a player has folded in a hand, for the rest of that
\* hand it is never asked to act, never bets further chips and never gains
\* any chips, neither at showdown nor in an uncontested settlement.
C36_FoldedIsOut ==
    [][ (pc \in InHand) =>
          \A p \in FoldedNow :
              /\ players'[p].hand_status = "folded"
              /\ (AgentAsked => Actor # p)
              /\ players'[p].total_bet_this_hand = players[p].total_bet_this_hand
              /\ players'[p].stack = players[p].stack
              /\ players'[p].total_gain_this_hand = players[p].total_gain_this_hand
      ]_vars

\* What the pots hold for which p is the only eligible player.
SoleAmount(p) ==
    SumOver([ i \in 1..Len(pot_stacks) |->
                IF pot_stacks[i].eligible_players = {p} THEN pot_stacks[i].amount ELSE 0 ],
            1..Len(pot_stacks))

\* C36, amended: once a player has folded in a hand it is never asked to
\* act, never bets further chips and gains nothing at showdown; in an
\* uncontested settlement it gains exactly the pots for which it is the only
\* eligible player (its uncalled chips are refunded), and nothing else.
C36_FoldedGetsOnlyRefund ==
    [][ (pc \in InHand) =>
          \A p \in FoldedNow :
              LET refund == IF pc = "check_uncontested" /\ pc' \in { "hand_ended", "error" }
                            THEN SoleAmount(p) ELSE 0
              IN /\ players'[p].hand_status = "folded"
                 /\ (AgentAsked => Actor # p)
                 /\ players'[p].total_bet_this_hand = players[p].total_bet_this_hand
                 /\ players'[p].stack = players[p].stack + GainedBy(p)
                 /\ GainedBy(p) <= refund
                 /\ GainedBy(p) >= 0
                 /\ pc' # "error" => GainedBy(p) = refund
      ]_vars

\* A hand ended uncontested after a folded player was refunded.
C36_Witness ==
    /\ pc = "hand_ended"
    /\ current_stage # "showdown"
    /\ \E p \in FoldedNow : players[p].total_gain_this_hand > 0

\* A showdown was paid out with a folded player among the seats.
C36_FoldedAtShowdown ==
    /\ pc = "hand_ended"
    /\ current_stage = "showdown"
    /\ \E p \in FoldedNow : players[p].total_bet_this_hand > 0

\* ------------------------------------------------------------------- C37
\* What a seat can have won from the others and from its own bets: from
\* every seat, that seat's bets of the hand up to its own.
WinCap(w) ==
    SumOver([ j \in Players |-> Min(players[j].total_bet_this_hand,
                                    players[w].total_bet_this_hand) ], Seated)

\* C37: in a hand without a big-blind ante, what a seat has gained in the
\* hand is at most the sum, over all the seats (its own included), of the
\* smaller of that seat's bets of the hand and its own: a seat all-in never
\* wins from another seat more than it has put in itself.
C37_GainCappedByOwnBet ==
    big_blind_ante = 0 =>
        \A w \in Seated : players[w].total_gain_this_hand <= WinCap(w)

\* A hand without a big-blind ante has been paid out: a seat that was
\* all-in for less than another seat's bets has won exactly its cap, and
\* chips of the hand have gone elsewhere.
C37_Witness ==
    /\ pc = "hand_ended"
    /\ big_blind_ante = 0
    /\ \E w \in Seated :
          /\ players[w].hand_status = "all-in"
          /\ players[w].total_gain_this_hand = WinCap(w)
          /\ players[w].total_gain_this_hand > players[w].total_bet_this_hand
          /\ \E j \in Seated : players[j].total_bet_this_hand > players[w].total_bet_this_hand
          /\ WinCap(w) < TotalBet(players)

\* ------------------------------------------------------------------- C38
\* The sum of 'cost' over a player's entries of a hand log.
RECURSIVE LoggedCost(_, _)
LoggedCost(log, p) ==
    IF log = << >> THEN 0
    ELSE (IF Head(log).player_id = p THEN Head(log).cost ELSE 0) + LoggedCost(Tail(log), p)

\* A player's stack with the hand's bets added back and the hand's gains
\* taken off: at the start of the hand, where both totals are 0, the stack.
StackAtHandStart(ps, p) ==
    ps[p].stack + ps[p].total_bet_this_hand - ps[p].total_gain_this_hand

\* The control locations of a hand: from its first stage to hand_ended,
\* before check_alive resets the totals of the hand.
HandPoints == InHand \cup { "hand_ended" }

\* C38: at every point of a hand the costs of a seat's hand_log entries add
\* up to its total_bet_this_hand; the hand starts with total_bet_this_hand
\* and total_gain_this_hand at 0, and no step of the hand changes the stack
\* other than by what it adds to these two, so that at hand end the stack is
\* the stack of hand start minus total_bet_this_hand plus
\* total_gain_this_hand.
C38_LogAndStackAccounting ==
    [][ (pc' \in HandPoints \/ (pc \in HandPoints /\ pc' = "error")) =>
          \A p \in Range(player_list') :
              /\ LoggedCost(hand_log', p) = players'[p].total_bet_this_hand
              /\ IF pc = "run_game"
                 THEN /\ players'[p].total_bet_this_hand = 0
                      /\ players'[p].total_gain_this_hand = 0
                 ELSE StackAtHandStart(players', p) = StackAtHandStart(players, p)
      ]_vars

\* A second hand has reached hand_ended after a showdown: a seat has several
\* log entries with a cost, has bet and gained in the hand, and holds a stack
\* that differs from the one it started the hand with.
C38_Witness ==
    /\ pc = "hand_ended"
    /\ hand_count = 1
    /\ current_stage = "showdown"
    /\ \E p \in Seated :
          /\ Cardinality({ i \in 1..Len(hand_log) :
                             hand_log[i].player_id = p /\ hand_log[i].cost > 0 }) >= 2
          /\ LoggedCost(hand_log, p) = players[p].total_bet_this_hand
          /\ players[p].total_gain_this_hand > 0
          /\ players[p].total_gain_this_hand # players[p].total_bet_this_hand
          /\ players[p].stack # InitialChips

\* ------------------------------------------------------------------- C39
\* The players eliminated by earlier hands.
EliminatedBefore == { q \in Players : players[q].game_status = "eliminated" }

C39_OrderAmongRanked ==
    [][ (pc = "hand_ended") =>
          \A p \in Busted, q \in EliminatedBefore :
              (players'[p].rank # 0 /\ players[q].rank # 0)
                  => players'[p].rank < players[q].rank ]_vars

\* A hand ends with a busted seat while an earlier hand has eliminated
\* another player.
C39_SecondElimination ==
    /\ pc = "hand_ended"
    /\ Busted # {}
    /\ EliminatedBefore # {}

\* ------------------------------------------------------------------- C40
AlivePlayers == { p \in Players : players[p].game_status = "alive" }

C40_HandsSeatTheAlive ==
    [][ /\ (pc = "run_game" /\ pc' \in { "collect_antes", "error" }) =>
             /\ Range(player_list') = AlivePlayers
             /\ Len(player_list') = Cardinality(AlivePlayers)
        /\ \A q \in EliminatedBefore :
             /\ players'[q].game_status = "eliminated"
             /\ players'[q].stack = 0
             /\ (pc = "run_game" => q \notin Range(player_list'))
             /\ (pc \in InHand => q \notin Seated)
      ]_vars

\* A hand is being played while a player is eliminated.
C40_HandAfterElimination ==
    /\ pc \in InHand
    /\ EliminatedBefore # {}
    /\ hand_log # << >>

====
